---------------------------- MODULE Spec2Model ----------------------------
(***************************************************************************)
(* A model of kotlin-ls: the cursor-driven walks over a tree-sitter CST    *)
(* (src/tree.rs), the hover resolver (src/hover.rs), the language-server   *)
(* backend (src/main.rs) and the source-model builder (src/kotlin/...).    *)
(*                                                                         *)
(* A CST is a sequence of nodes in depth-first pre-order.  Each node       *)
(* carries what tree_sitter::Node exposes: its grammar kind, the source    *)
(* text of its span (utf8_text), its parent, first child and siblings (0   *)
(* when absent) and its start and end points (row, column).                *)
(***************************************************************************)
EXTENDS Integers, Sequences, FiniteSets, TLC

VARIABLES disk, trees, phase, reply, walk, files, typed_files, built, file, typed, elem,
          cst, made, remade, parsed, order, populated, inflight,
          stmts, expr, expr_rs, prop, literal, built_function, class_function,
          file_classes, overflow_checks, called, cursor, visited

vars == <<disk, trees, phase, reply, walk, files, typed_files, built, file, typed, elem,
          cst, made, remade, parsed, order, populated, inflight,
          stmts, expr, expr_rs, prop, literal, built_function, class_function,
          file_classes, overflow_checks, called, cursor, visited>>
serverVars == <<disk, trees, phase, reply>>
buildVars == <<walk, files, typed_files, built>>
typeVars == <<file, typed, elem>>
cstVars == <<cst, made, remade, parsed>>
concVars == <<order, populated, inflight>>
cursorVars == <<called, cursor, visited>>
builderVars ==
  <<stmts, expr, expr_rs, prop, literal, built_function, class_function, file_classes,
    overflow_checks>>
exprVars == <<builderVars, cursorVars>>

Nd(k, txt, par, fst, nxt, prv, sr, sc, er, ec) ==
  [kind |-> k, text |-> txt, parent |-> par, first |-> fst, next |-> nxt,
   prev |-> prv, srow |-> sr, scol |-> sc, erow |-> er, ecol |-> ec]

(***************************************************************************)
(* The project on disk: four Kotlin sources with the CST tree-sitter-kotlin *)
(* builds for each.                                                        *)
(***************************************************************************)

(* src/Foo.kt
    0| package app
    1| 
    2| class Foo {
    3|     fun bar(): Int
    4|     private fun baz(x: Int): Int
    5| }
*)
FooKt ==
  <<
    Nd("source_file", "package app\n\nclass Foo {\n    fun bar(): Int\n    private fun baz(x: Int): Int\n}\n", 0, 2, 0, 0, 0, 0, 6, 0),
    Nd("package_header", "package app", 1, 3, 6, 0, 0, 0, 0, 11),
    Nd("package", "package", 2, 0, 4, 0, 0, 0, 0, 7),
    Nd("identifier", "app", 2, 5, 0, 3, 0, 8, 0, 11),
    Nd("simple_identifier", "app", 4, 0, 0, 0, 0, 8, 0, 11),
    Nd("class_declaration", "class Foo {\n    fun bar(): Int\n    private fun baz(x: Int): Int\n}", 1, 7, 0, 2, 2, 0, 5, 1),
    Nd("class", "class", 6, 0, 8, 0, 2, 0, 2, 5),
    Nd("type_identifier", "Foo", 6, 0, 9, 7, 2, 6, 2, 9),
    Nd("class_body", "{\n    fun bar(): Int\n    private fun baz(x: Int): Int\n}", 6, 10, 0, 8, 2, 10, 5, 1),
    Nd("{", "{", 9, 0, 11, 0, 2, 10, 2, 11),
    Nd("function_declaration", "fun bar(): Int", 9, 12, 20, 10, 3, 4, 3, 18),
    Nd("fun", "fun", 11, 0, 13, 0, 3, 4, 3, 7),
    Nd("simple_identifier", "bar", 11, 0, 14, 12, 3, 8, 3, 11),
    Nd("function_value_parameters", "()", 11, 15, 17, 13, 3, 11, 3, 13),
    Nd("(", "(", 14, 0, 16, 0, 3, 11, 3, 12),
    Nd(")", ")", 14, 0, 0, 15, 3, 12, 3, 13),
    Nd(":", ":", 11, 0, 18, 14, 3, 13, 3, 14),
    Nd("user_type", "Int", 11, 19, 0, 17, 3, 15, 3, 18),
    Nd("type_identifier", "Int", 18, 0, 0, 0, 3, 15, 3, 18),
    Nd("function_declaration", "private fun baz(x: Int): Int", 9, 21, 37, 11, 4, 4, 4, 32),
    Nd("modifiers", "private", 20, 22, 24, 0, 4, 4, 4, 11),
    Nd("visibility_modifier", "private", 21, 23, 0, 0, 4, 4, 4, 11),
    Nd("private", "private", 22, 0, 0, 0, 4, 4, 4, 11),
    Nd("fun", "fun", 20, 0, 25, 21, 4, 12, 4, 15),
    Nd("simple_identifier", "baz", 20, 0, 26, 24, 4, 16, 4, 19),
    Nd("function_value_parameters", "(x: Int)", 20, 27, 34, 25, 4, 19, 4, 27),
    Nd("(", "(", 26, 0, 28, 0, 4, 19, 4, 20),
    Nd("parameter", "x: Int", 26, 29, 33, 27, 4, 20, 4, 26),
    Nd("simple_identifier", "x", 28, 0, 30, 0, 4, 20, 4, 21),
    Nd(":", ":", 28, 0, 31, 29, 4, 21, 4, 22),
    Nd("user_type", "Int", 28, 32, 0, 30, 4, 23, 4, 26),
    Nd("type_identifier", "Int", 31, 0, 0, 0, 4, 23, 4, 26),
    Nd(")", ")", 26, 0, 0, 28, 4, 26, 4, 27),
    Nd(":", ":", 20, 0, 35, 26, 4, 27, 4, 28),
    Nd("user_type", "Int", 20, 36, 0, 34, 4, 29, 4, 32),
    Nd("type_identifier", "Int", 35, 0, 0, 0, 4, 29, 4, 32),
    Nd("}", "}", 9, 0, 0, 20, 5, 0, 5, 1)
  >>

(* lib/Foo.kt
    0| class Foo {
    1|     fun bar(): Int
    2| }
*)
LibFooKt ==
  <<
    Nd("source_file", "class Foo {\n    fun bar(): Int\n}\n", 0, 2, 0, 0, 0, 0, 3, 0),
    Nd("class_declaration", "class Foo {\n    fun bar(): Int\n}", 1, 3, 0, 0, 0, 0, 2, 1),
    Nd("class", "class", 2, 0, 4, 0, 0, 0, 0, 5),
    Nd("type_identifier", "Foo", 2, 0, 5, 3, 0, 6, 0, 9),
    Nd("class_body", "{\n    fun bar(): Int\n}", 2, 6, 0, 4, 0, 10, 2, 1),
    Nd("{", "{", 5, 0, 7, 0, 0, 10, 0, 11),
    Nd("function_declaration", "fun bar(): Int", 5, 8, 16, 6, 1, 4, 1, 18),
    Nd("fun", "fun", 7, 0, 9, 0, 1, 4, 1, 7),
    Nd("simple_identifier", "bar", 7, 0, 10, 8, 1, 8, 1, 11),
    Nd("function_value_parameters", "()", 7, 11, 13, 9, 1, 11, 1, 13),
    Nd("(", "(", 10, 0, 12, 0, 1, 11, 1, 12),
    Nd(")", ")", 10, 0, 0, 11, 1, 12, 1, 13),
    Nd(":", ":", 7, 0, 14, 10, 1, 13, 1, 14),
    Nd("user_type", "Int", 7, 15, 0, 13, 1, 15, 1, 18),
    Nd("type_identifier", "Int", 14, 0, 0, 0, 1, 15, 1, 18),
    Nd("}", "}", 5, 0, 0, 7, 2, 0, 2, 1)
  >>

(* src/Bad.kt
    0| expect class Bad
*)
BadKt ==
  <<
    Nd("source_file", "expect class Bad\n", 0, 2, 0, 0, 0, 0, 1, 0),
    Nd("class_declaration", "expect class Bad", 1, 3, 0, 0, 0, 0, 0, 16),
    Nd("modifiers", "expect", 2, 4, 6, 0, 0, 0, 0, 6),
    Nd("platform_modifier", "expect", 3, 5, 0, 0, 0, 0, 0, 6),
    Nd("expect", "expect", 4, 0, 0, 0, 0, 0, 0, 6),
    Nd("class", "class", 2, 0, 7, 3, 0, 7, 0, 12),
    Nd("type_identifier", "Bad", 2, 0, 0, 6, 0, 13, 0, 16)
  >>

(* src/Bar.kt
    0| import app.Foo
    1| 
    2| class Bar(private val g: Foo) {
    3|     val f = Foo()
    4|     private val h = Foo()
    5|     private val k: Foo = h
    6|     private fun go(n: Int): Int {
    7|         f.bar()
    8|         g.baz(n)
    9|         g.bar()
   10|         h.baz(1)
   11|         k.baz(2)
   12|         go(3)
   13|         run()
   14|         nop()
   15|         z.bar()
   16|     }
   17|     fun run() {}
   18| }
*)
BarKt ==
  <<
    Nd("source_file", "import app.Foo\n\nclass Bar(private val g: Foo) {\n    val f = Foo()\n    private val h = Foo()\n    private val k: Foo = h\n    private fun go(n: Int): Int {\n        f.bar()\n        g.baz(n)\n        g.bar()\n        h.baz(1)\n        k.baz(2)\n        go(3)\n        run()\n        nop()\n        z.bar()\n    }\n    fun run() {}\n}\n", 0, 2, 0, 0, 0, 0, 19, 0),
    Nd("import_list", "import app.Foo", 1, 3, 9, 0, 0, 0, 0, 14),
    Nd("import_header", "import app.Foo", 2, 4, 0, 0, 0, 0, 0, 14),
    Nd("import", "import", 3, 0, 5, 0, 0, 0, 0, 6),
    Nd("identifier", "app.Foo", 3, 6, 0, 4, 0, 7, 0, 14),
    Nd("simple_identifier", "app", 5, 0, 7, 0, 0, 7, 0, 10),
    Nd(".", ".", 5, 0, 8, 6, 0, 10, 0, 11),
    Nd("simple_identifier", "Foo", 5, 0, 0, 7, 0, 11, 0, 14),
    Nd("class_declaration", "class Bar(private val g: Foo) {\n    val f = Foo()\n    private val h = Foo()\n    private val k: Foo = h\n    private fun go(n: Int): Int {\n        f.bar()\n        g.baz(n)\n        g.bar()\n        h.baz(1)\n        k.baz(2)\n        go(3)\n        run()\n        nop()\n        z.bar()\n    }\n    fun run() {}\n}", 1, 10, 0, 2, 2, 0, 18, 1),
    Nd("class", "class", 9, 0, 11, 0, 2, 0, 2, 5),
    Nd("type_identifier", "Bar", 9, 0, 12, 10, 2, 6, 2, 9),
    Nd("primary_constructor", "(private val g: Foo)", 9, 13, 24, 11, 2, 9, 2, 29),
    Nd("(", "(", 12, 0, 14, 0, 2, 9, 2, 10),
    Nd("class_parameter", "private val g: Foo", 12, 15, 23, 13, 2, 10, 2, 28),
    Nd("modifiers", "private", 14, 16, 18, 0, 2, 10, 2, 17),
    Nd("visibility_modifier", "private", 15, 17, 0, 0, 2, 10, 2, 17),
    Nd("private", "private", 16, 0, 0, 0, 2, 10, 2, 17),
    Nd("val", "val", 14, 0, 19, 15, 2, 18, 2, 21),
    Nd("simple_identifier", "g", 14, 0, 20, 18, 2, 22, 2, 23),
    Nd(":", ":", 14, 0, 21, 19, 2, 23, 2, 24),
    Nd("user_type", "Foo", 14, 22, 0, 20, 2, 25, 2, 28),
    Nd("type_identifier", "Foo", 21, 0, 0, 0, 2, 25, 2, 28),
    Nd(")", ")", 12, 0, 0, 14, 2, 28, 2, 29),
    Nd("class_body", "{\n    val f = Foo()\n    private val h = Foo()\n    private val k: Foo = h\n    private fun go(n: Int): Int {\n        f.bar()\n        g.baz(n)\n        g.bar()\n        h.baz(1)\n        k.baz(2)\n        go(3)\n        run()\n        nop()\n        z.bar()\n    }\n    fun run() {}\n}", 9, 25, 0, 12, 2, 30, 18, 1),
    Nd("{", "{", 24, 0, 26, 0, 2, 30, 2, 31),
    Nd("property_declaration", "val f = Foo()", 24, 27, 37, 25, 3, 4, 3, 17),
    Nd("val", "val", 26, 0, 28, 0, 3, 4, 3, 7),
    Nd("variable_declaration", "f", 26, 29, 30, 27, 3, 8, 3, 9),
    Nd("simple_identifier", "f", 28, 0, 0, 0, 3, 8, 3, 9),
    Nd("=", "=", 26, 0, 31, 28, 3, 10, 3, 11),
    Nd("call_expression", "Foo()", 26, 32, 0, 30, 3, 12, 3, 17),
    Nd("simple_identifier", "Foo", 31, 0, 33, 0, 3, 12, 3, 15),
    Nd("call_suffix", "()", 31, 34, 0, 32, 3, 15, 3, 17),
    Nd("value_arguments", "()", 33, 35, 0, 0, 3, 15, 3, 17),
    Nd("(", "(", 34, 0, 36, 0, 3, 15, 3, 16),
    Nd(")", ")", 34, 0, 0, 35, 3, 16, 3, 17),
    Nd("property_declaration", "private val h = Foo()", 24, 38, 51, 26, 4, 4, 4, 25),
    Nd("modifiers", "private", 37, 39, 41, 0, 4, 4, 4, 11),
    Nd("visibility_modifier", "private", 38, 40, 0, 0, 4, 4, 4, 11),
    Nd("private", "private", 39, 0, 0, 0, 4, 4, 4, 11),
    Nd("val", "val", 37, 0, 42, 38, 4, 12, 4, 15),
    Nd("variable_declaration", "h", 37, 43, 44, 41, 4, 16, 4, 17),
    Nd("simple_identifier", "h", 42, 0, 0, 0, 4, 16, 4, 17),
    Nd("=", "=", 37, 0, 45, 42, 4, 18, 4, 19),
    Nd("call_expression", "Foo()", 37, 46, 0, 44, 4, 20, 4, 25),
    Nd("simple_identifier", "Foo", 45, 0, 47, 0, 4, 20, 4, 23),
    Nd("call_suffix", "()", 45, 48, 0, 46, 4, 23, 4, 25),
    Nd("value_arguments", "()", 47, 49, 0, 0, 4, 23, 4, 25),
    Nd("(", "(", 48, 0, 50, 0, 4, 23, 4, 24),
    Nd(")", ")", 48, 0, 0, 49, 4, 24, 4, 25),
    Nd("property_declaration", "private val k: Foo = h", 24, 52, 63, 37, 5, 4, 5, 26),
    Nd("modifiers", "private", 51, 53, 55, 0, 5, 4, 5, 11),
    Nd("visibility_modifier", "private", 52, 54, 0, 0, 5, 4, 5, 11),
    Nd("private", "private", 53, 0, 0, 0, 5, 4, 5, 11),
    Nd("val", "val", 51, 0, 56, 52, 5, 12, 5, 15),
    Nd("variable_declaration", "k: Foo", 51, 57, 61, 55, 5, 16, 5, 22),
    Nd("simple_identifier", "k", 56, 0, 58, 0, 5, 16, 5, 17),
    Nd(":", ":", 56, 0, 59, 57, 5, 17, 5, 18),
    Nd("user_type", "Foo", 56, 60, 0, 58, 5, 19, 5, 22),
    Nd("type_identifier", "Foo", 59, 0, 0, 0, 5, 19, 5, 22),
    Nd("=", "=", 51, 0, 62, 56, 5, 23, 5, 24),
    Nd("simple_identifier", "h", 51, 0, 0, 61, 5, 25, 5, 26),
    Nd("function_declaration", "private fun go(n: Int): Int {\n        f.bar()\n        g.baz(n)\n        g.bar()\n        h.baz(1)\n        k.baz(2)\n        go(3)\n        run()\n        nop()\n        z.bar()\n    }", 24, 64, 170, 51, 6, 4, 16, 5),
    Nd("modifiers", "private", 63, 65, 67, 0, 6, 4, 6, 11),
    Nd("visibility_modifier", "private", 64, 66, 0, 0, 6, 4, 6, 11),
    Nd("private", "private", 65, 0, 0, 0, 6, 4, 6, 11),
    Nd("fun", "fun", 63, 0, 68, 64, 6, 12, 6, 15),
    Nd("simple_identifier", "go", 63, 0, 69, 67, 6, 16, 6, 18),
    Nd("function_value_parameters", "(n: Int)", 63, 70, 77, 68, 6, 18, 6, 26),
    Nd("(", "(", 69, 0, 71, 0, 6, 18, 6, 19),
    Nd("parameter", "n: Int", 69, 72, 76, 70, 6, 19, 6, 25),
    Nd("simple_identifier", "n", 71, 0, 73, 0, 6, 19, 6, 20),
    Nd(":", ":", 71, 0, 74, 72, 6, 20, 6, 21),
    Nd("user_type", "Int", 71, 75, 0, 73, 6, 22, 6, 25),
    Nd("type_identifier", "Int", 74, 0, 0, 0, 6, 22, 6, 25),
    Nd(")", ")", 69, 0, 0, 71, 6, 25, 6, 26),
    Nd(":", ":", 63, 0, 78, 69, 6, 26, 6, 27),
    Nd("user_type", "Int", 63, 79, 80, 77, 6, 28, 6, 31),
    Nd("type_identifier", "Int", 78, 0, 0, 0, 6, 28, 6, 31),
    Nd("function_body", "{\n        f.bar()\n        g.baz(n)\n        g.bar()\n        h.baz(1)\n        k.baz(2)\n        go(3)\n        run()\n        nop()\n        z.bar()\n    }", 63, 81, 0, 78, 6, 32, 16, 5),
    Nd("{", "{", 80, 0, 82, 0, 6, 32, 6, 33),
    Nd("statements", "f.bar()\n        g.baz(n)\n        g.bar()\n        h.baz(1)\n        k.baz(2)\n        go(3)\n        run()\n        nop()\n        z.bar()", 80, 83, 169, 81, 7, 8, 15, 15),
    Nd("call_expression", "f.bar()", 82, 84, 93, 0, 7, 8, 7, 15),
    Nd("navigation_expression", "f.bar", 83, 85, 89, 0, 7, 8, 7, 13),
    Nd("simple_identifier", "f", 84, 0, 86, 0, 7, 8, 7, 9),
    Nd("navigation_suffix", ".bar", 84, 87, 0, 85, 7, 9, 7, 13),
    Nd(".", ".", 86, 0, 88, 0, 7, 9, 7, 10),
    Nd("simple_identifier", "bar", 86, 0, 0, 87, 7, 10, 7, 13),
    Nd("call_suffix", "()", 83, 90, 0, 84, 7, 13, 7, 15),
    Nd("value_arguments", "()", 89, 91, 0, 0, 7, 13, 7, 15),
    Nd("(", "(", 90, 0, 92, 0, 7, 13, 7, 14),
    Nd(")", ")", 90, 0, 0, 91, 7, 14, 7, 15),
    Nd("call_expression", "g.baz(n)", 82, 94, 105, 83, 8, 8, 8, 16),
    Nd("navigation_expression", "g.baz", 93, 95, 99, 0, 8, 8, 8, 13),
    Nd("simple_identifier", "g", 94, 0, 96, 0, 8, 8, 8, 9),
    Nd("navigation_suffix", ".baz", 94, 97, 0, 95, 8, 9, 8, 13),
    Nd(".", ".", 96, 0, 98, 0, 8, 9, 8, 10),
    Nd("simple_identifier", "baz", 96, 0, 0, 97, 8, 10, 8, 13),
    Nd("call_suffix", "(n)", 93, 100, 0, 94, 8, 13, 8, 16),
    Nd("value_arguments", "(n)", 99, 101, 0, 0, 8, 13, 8, 16),
    Nd("(", "(", 100, 0, 102, 0, 8, 13, 8, 14),
    Nd("value_argument", "n", 100, 103, 104, 101, 8, 14, 8, 15),
    Nd("simple_identifier", "n", 102, 0, 0, 0, 8, 14, 8, 15),
    Nd(")", ")", 100, 0, 0, 102, 8, 15, 8, 16),
    Nd("call_expression", "g.bar()", 82, 106, 115, 93, 9, 8, 9, 15),
    Nd("navigation_expression", "g.bar", 105, 107, 111, 0, 9, 8, 9, 13),
    Nd("simple_identifier", "g", 106, 0, 108, 0, 9, 8, 9, 9),
    Nd("navigation_suffix", ".bar", 106, 109, 0, 107, 9, 9, 9, 13),
    Nd(".", ".", 108, 0, 110, 0, 9, 9, 9, 10),
    Nd("simple_identifier", "bar", 108, 0, 0, 109, 9, 10, 9, 13),
    Nd("call_suffix", "()", 105, 112, 0, 106, 9, 13, 9, 15),
    Nd("value_arguments", "()", 111, 113, 0, 0, 9, 13, 9, 15),
    Nd("(", "(", 112, 0, 114, 0, 9, 13, 9, 14),
    Nd(")", ")", 112, 0, 0, 113, 9, 14, 9, 15),
    Nd("call_expression", "h.baz(1)", 82, 116, 127, 105, 10, 8, 10, 16),
    Nd("navigation_expression", "h.baz", 115, 117, 121, 0, 10, 8, 10, 13),
    Nd("simple_identifier", "h", 116, 0, 118, 0, 10, 8, 10, 9),
    Nd("navigation_suffix", ".baz", 116, 119, 0, 117, 10, 9, 10, 13),
    Nd(".", ".", 118, 0, 120, 0, 10, 9, 10, 10),
    Nd("simple_identifier", "baz", 118, 0, 0, 119, 10, 10, 10, 13),
    Nd("call_suffix", "(1)", 115, 122, 0, 116, 10, 13, 10, 16),
    Nd("value_arguments", "(1)", 121, 123, 0, 0, 10, 13, 10, 16),
    Nd("(", "(", 122, 0, 124, 0, 10, 13, 10, 14),
    Nd("value_argument", "1", 122, 125, 126, 123, 10, 14, 10, 15),
    Nd("integer_literal", "1", 124, 0, 0, 0, 10, 14, 10, 15),
    Nd(")", ")", 122, 0, 0, 124, 10, 15, 10, 16),
    Nd("call_expression", "k.baz(2)", 82, 128, 139, 115, 11, 8, 11, 16),
    Nd("navigation_expression", "k.baz", 127, 129, 133, 0, 11, 8, 11, 13),
    Nd("simple_identifier", "k", 128, 0, 130, 0, 11, 8, 11, 9),
    Nd("navigation_suffix", ".baz", 128, 131, 0, 129, 11, 9, 11, 13),
    Nd(".", ".", 130, 0, 132, 0, 11, 9, 11, 10),
    Nd("simple_identifier", "baz", 130, 0, 0, 131, 11, 10, 11, 13),
    Nd("call_suffix", "(2)", 127, 134, 0, 128, 11, 13, 11, 16),
    Nd("value_arguments", "(2)", 133, 135, 0, 0, 11, 13, 11, 16),
    Nd("(", "(", 134, 0, 136, 0, 11, 13, 11, 14),
    Nd("value_argument", "2", 134, 137, 138, 135, 11, 14, 11, 15),
    Nd("integer_literal", "2", 136, 0, 0, 0, 11, 14, 11, 15),
    Nd(")", ")", 134, 0, 0, 136, 11, 15, 11, 16),
    Nd("call_expression", "go(3)", 82, 140, 147, 127, 12, 8, 12, 13),
    Nd("simple_identifier", "go", 139, 0, 141, 0, 12, 8, 12, 10),
    Nd("call_suffix", "(3)", 139, 142, 0, 140, 12, 10, 12, 13),
    Nd("value_arguments", "(3)", 141, 143, 0, 0, 12, 10, 12, 13),
    Nd("(", "(", 142, 0, 144, 0, 12, 10, 12, 11),
    Nd("value_argument", "3", 142, 145, 146, 143, 12, 11, 12, 12),
    Nd("integer_literal", "3", 144, 0, 0, 0, 12, 11, 12, 12),
    Nd(")", ")", 142, 0, 0, 144, 12, 12, 12, 13),
    Nd("call_expression", "run()", 82, 148, 153, 139, 13, 8, 13, 13),
    Nd("simple_identifier", "run", 147, 0, 149, 0, 13, 8, 13, 11),
    Nd("call_suffix", "()", 147, 150, 0, 148, 13, 11, 13, 13),
    Nd("value_arguments", "()", 149, 151, 0, 0, 13, 11, 13, 13),
    Nd("(", "(", 150, 0, 152, 0, 13, 11, 13, 12),
    Nd(")", ")", 150, 0, 0, 151, 13, 12, 13, 13),
    Nd("call_expression", "nop()", 82, 154, 159, 147, 14, 8, 14, 13),
    Nd("simple_identifier", "nop", 153, 0, 155, 0, 14, 8, 14, 11),
    Nd("call_suffix", "()", 153, 156, 0, 154, 14, 11, 14, 13),
    Nd("value_arguments", "()", 155, 157, 0, 0, 14, 11, 14, 13),
    Nd("(", "(", 156, 0, 158, 0, 14, 11, 14, 12),
    Nd(")", ")", 156, 0, 0, 157, 14, 12, 14, 13),
    Nd("call_expression", "z.bar()", 82, 160, 0, 153, 15, 8, 15, 15),
    Nd("navigation_expression", "z.bar", 159, 161, 165, 0, 15, 8, 15, 13),
    Nd("simple_identifier", "z", 160, 0, 162, 0, 15, 8, 15, 9),
    Nd("navigation_suffix", ".bar", 160, 163, 0, 161, 15, 9, 15, 13),
    Nd(".", ".", 162, 0, 164, 0, 15, 9, 15, 10),
    Nd("simple_identifier", "bar", 162, 0, 0, 163, 15, 10, 15, 13),
    Nd("call_suffix", "()", 159, 166, 0, 160, 15, 13, 15, 15),
    Nd("value_arguments", "()", 165, 167, 0, 0, 15, 13, 15, 15),
    Nd("(", "(", 166, 0, 168, 0, 15, 13, 15, 14),
    Nd(")", ")", 166, 0, 0, 167, 15, 14, 15, 15),
    Nd("}", "}", 80, 0, 0, 82, 16, 4, 16, 5),
    Nd("function_declaration", "fun run() {}", 24, 171, 179, 63, 17, 4, 17, 16),
    Nd("fun", "fun", 170, 0, 172, 0, 17, 4, 17, 7),
    Nd("simple_identifier", "run", 170, 0, 173, 171, 17, 8, 17, 11),
    Nd("function_value_parameters", "()", 170, 174, 176, 172, 17, 11, 17, 13),
    Nd("(", "(", 173, 0, 175, 0, 17, 11, 17, 12),
    Nd(")", ")", 173, 0, 0, 174, 17, 12, 17, 13),
    Nd("function_body", "{}", 170, 177, 0, 173, 17, 14, 17, 16),
    Nd("{", "{", 176, 0, 178, 0, 17, 14, 17, 15),
    Nd("}", "}", 176, 0, 0, 177, 17, 15, 17, 16),
    Nd("}", "}", 24, 0, 0, 170, 18, 0, 18, 1)
  >>

(***************************************************************************)
(* Paths.  A PathBuf is kept as its directory, file stem and extension,    *)
(* the parts Path::file_stem and Path::extension take it apart into.       *)
(***************************************************************************)
Path(d, s, e) == [dir |-> d, stem |-> s, ext |-> e]

SrcFoo == Path("src", "Foo", "kt")
LibFoo == Path("lib", "Foo", "kt")
SrcBar == Path("src", "Bar", "kt")
SrcBad == Path("src", "Bad", "kt")
Readme == Path("", "README", "md")

AllFiles == {SrcFoo, LibFoo, SrcBar, SrcBad, Readme}

\* fs::read_to_string of a path of the project: the name of its content.
Content(p) ==
  CASE p = SrcFoo -> "FooKt"
    [] p = LibFoo -> "LibFooKt"
    [] p = SrcBar -> "BarKt"
    [] p = SrcBad -> "BadKt"
    [] OTHER -> "Readme"

\* Parser::parse: the CST of a content.  README.md is never parsed.
Parse(c) ==
  CASE c = "FooKt" -> FooKt
    [] c = "LibFooKt" -> LibFooKt
    [] c = "BarKt" -> BarKt
    [] c = "BadKt" -> BadKt
    [] OTHER -> << >>

file_stem(p) == IF p.stem = "" THEN << >> ELSE <<p.stem>>

\* WalkDir filtered to regular files whose extension is "kt".
KtFiles(d) == {p \in d : p.ext = "kt"}

(***************************************************************************)
(* Bounds of the cursor positions a request may carry.                     *)
(***************************************************************************)
MaxLine == 19
MaxCol == 34

Positions == [line : 0..MaxLine, character : 0..MaxCol]

(***************************************************************************)
(* Option values are sequences of length 0 (None) or 1 (Some); an absent   *)
(* node is 0.                                                              *)
(***************************************************************************)
None == << >>
Some(v) == <<v>>
IsSome(o) == Len(o) = 1
Unwrap(o) == o[1]

(***************************************************************************)
(* TreeCursor of a walk rooted at root: goto_first_child,                  *)
(* goto_next_sibling and goto_parent answer the node moved to, 0 when the  *)
(* move fails.  A cursor never leaves the subtree of its root.             *)
(***************************************************************************)
goto_first_child(t, n) == t[n].first
goto_next_sibling(t, root, n) == IF n = root THEN 0 ELSE t[n].next
goto_parent(t, root, n) == IF n = root THEN 0 ELSE t[n].parent

\* The inner loop of every walk: the next sibling, else the next sibling of
\* the nearest ancestor that has one, else 0 (the walk returns).
RECURSIVE NextUp(_, _, _)
NextUp(t, root, n) ==
  IF goto_next_sibling(t, root, n) # 0 THEN goto_next_sibling(t, root, n)
  ELSE IF goto_parent(t, root, n) = 0 THEN 0
  ELSE NextUp(t, root, goto_parent(t, root, n))

\* The move were the cursor to stay on the parent it climbed to.
Advance_to_parent(t, root, n) ==
  IF goto_first_child(t, n) # 0 THEN goto_first_child(t, n)
  ELSE IF goto_next_sibling(t, root, n) # 0 THEN goto_next_sibling(t, root, n)
  ELSE goto_parent(t, root, n)

\* One turn of the outer loop after the node was inspected.
Advance(t, root, n) ==
  IF goto_first_child(t, n) # 0 THEN goto_first_child(t, n) ELSE NextUp(t, root, n)

(***************************************************************************)
(* The walks of the source are loops over a cursor.  Each is modelled by   *)
(* its loop body, an operator from the loop's state to its next state; a   *)
(* state is done once the body has returned.  Loop(Step, k, s) is the      *)
(* state after at most k turns of the body from s (computed by halving k,  *)
(* which keeps the evaluation shallow).                                    *)
(***************************************************************************)
RECURSIVE Loop(_, _, _)
Loop(Step(_), k, s) ==
  IF s.done \/ k = 0 THEN s
  ELSE IF k = 1 THEN Step(s)
  ELSE LET mid == Loop(Step, k \div 2, s)
       IN IF mid.done THEN mid ELSE Loop(Step, k - (k \div 2), mid)

(***************************************************************************)
(* tree::get_node                                                          *)
(***************************************************************************)
\* The test get_node applies to a node and a position.
InSpan(nd, pos) ==
  /\ nd.srow <= pos.line
  /\ nd.scol <= pos.character
  /\ nd.erow >= pos.line
  /\ nd.ecol >= pos.character

GetNodeStep(t, pos, s) ==
  LET target_node == IF InSpan(t[s.cur], pos) THEN s.cur ELSE s.target
      nxt == Advance(t, 1, s.cur)
  IN IF nxt = 0
     THEN [cur |-> s.cur, target |-> target_node, done |-> TRUE]
     ELSE [cur |-> nxt, target |-> target_node, done |-> FALSE]

get_node(t, pos) ==
  LET Body(s) == GetNodeStep(t, pos, s)
  IN Loop(Body, Len(t), [cur |-> 1, target |-> 0, done |-> FALSE]).target

(***************************************************************************)
(* The walks that look a name up share the state of their loop: the node   *)
(* under the cursor and, once done, the value returned.                    *)
(***************************************************************************)
Walking(n) == [cur |-> n, ret |-> None, done |-> FALSE]
Return(n, v) == [cur |-> n, ret |-> v, done |-> TRUE]

\* The tail of each loop body: move on, or return otherwise at the end.
MoveOn(t, n, otherwise) ==
  LET nxt == Advance(t, 1, n)
  IN IF nxt = 0 THEN Return(n, otherwise) ELSE Walking(nxt)

(***************************************************************************)
(* tree::get_function.  Every ? of the source is an early return of None.  *)
(***************************************************************************)
\* The signature built at a node that matched, or None by one of the ?s.
FunctionAt(t, n, name) ==
  LET fun_kw == t[n].prev
      modifier_node == IF fun_kw = 0 THEN 0 ELSE t[fun_kw].prev
      params_node == t[n].next
      colon_node == IF params_node = 0 THEN 0 ELSE t[params_node].next
      type_node == IF colon_node = 0 THEN 0 ELSE t[colon_node].next
  IN IF fun_kw = 0 \/ modifier_node = 0 THEN None
     ELSE IF params_node = 0 THEN None
     ELSE IF colon_node # 0 /\ t[colon_node].kind = ":"
          THEN IF type_node = 0 THEN None
               ELSE Some(t[modifier_node].text \o " fun " \o name
                         \o t[params_node].text \o ": " \o t[type_node].text)
          ELSE Some(t[modifier_node].text \o " fun " \o name \o t[params_node].text)

GetFunctionStep(t, name, s) ==
  LET n == s.cur
  IN IF t[n].text = name /\ t[n].parent = 0 THEN Return(n, None)
     ELSE IF t[n].text = name /\ t[t[n].parent].kind = "function_declaration"
          THEN Return(n, FunctionAt(t, n, name))
     ELSE MoveOn(t, n, None)

get_function(t, name) ==
  LET Body(s) == GetFunctionStep(t, name, s)
  IN Loop(Body, Len(t), Walking(1)).ret

(***************************************************************************)
(* tree::get_navigation                                                    *)
(***************************************************************************)
\* The rendering at a matching node: modifier, val|var, name, sep, and the
\* text of the second following sibling.
NavigationAt(t, n, name, sep) ==
  LET val == t[n].prev
      modifier == IF val = 0 THEN 0 ELSE t[val].prev
      nx == t[n].next
      nx2 == IF nx = 0 THEN 0 ELSE t[nx].next
  IN IF val = 0 \/ modifier = 0 THEN None
     ELSE IF nx = 0 \/ nx2 = 0 THEN None
     ELSE Some(t[modifier].text \o " " \o t[val].text \o " " \o name
               \o sep \o t[nx2].text)

GetNavigationStep(t, name, s) ==
  LET n == s.cur
  IN IF t[n].text # name THEN MoveOn(t, n, None)
     ELSE IF t[n].kind = "variable_declaration"
          THEN Return(n, NavigationAt(t, n, name, " = "))
     ELSE IF t[n].parent = 0 THEN Return(n, None)
     ELSE IF t[t[n].parent].kind = "class_parameter"
          THEN Return(n, NavigationAt(t, n, name, ": "))
     ELSE MoveOn(t, n, None)

get_navigation(t, name) ==
  LET Body(s) == GetNavigationStep(t, name, s)
  IN Loop(Body, Len(t), Walking(1)).ret

(***************************************************************************)
(* tree::get_navigation_type                                               *)
(***************************************************************************)
\* The text of the second following sibling, None when a sibling is absent.
SecondNextText(t, n) ==
  LET nx == t[n].next
      nx2 == IF nx = 0 THEN 0 ELSE t[nx].next
  IN IF nx = 0 \/ nx2 = 0 THEN None ELSE Some(t[nx2].text)

\* The loop body were it to pass over a node of that text that declares
\* nothing.
GetNavigationTypeStep_passing(t, name, s) ==
  LET n == s.cur
  IN IF t[n].text = name /\ t[n].kind = "variable_declaration"
     THEN Return(n, SecondNextText(t, n))
     ELSE IF t[n].text = name /\ t[n].parent # 0 /\ t[t[n].parent].kind = "class_parameter"
     THEN Return(n, SecondNextText(t, n))
     ELSE MoveOn(t, n, None)

GetNavigationTypeStep(t, name, s) ==
  LET n == s.cur
  IN IF t[n].text = name
     THEN IF t[n].kind = "variable_declaration" THEN Return(n, SecondNextText(t, n))
          ELSE IF t[n].parent = 0 THEN Return(n, None)
          ELSE IF t[t[n].parent].kind = "class_parameter"
               THEN Return(n, SecondNextText(t, n))
          ELSE Return(n, None)
     ELSE MoveOn(t, n, None)

get_navigation_type(t, name) ==
  LET Body(s) == GetNavigationTypeStep(t, name, s)
  IN Loop(Body, Len(t), Walking(1)).ret

(***************************************************************************)
(* Hover values and request outcomes.                                      *)
(***************************************************************************)
\* A TLA+ string cannot hold the grave accent: Fence stands for the three
\* grave accents that open and close a Markdown code block.
Fence == "'''"

\* format!("<fence>kotlin\n{s}\n<fence>")
CodeBlock(s) == Fence \o "kotlin\n" \o s \o "\n" \o Fence

\* Hover { contents: HoverContents::Markup(MarkupContent { kind: Markdown, value }), range: None }
Markup(v) == [contents |-> "Markup", kind |-> "Markdown", value |-> v]
\* Hover { contents: HoverContents::Scalar(MarkedString::String(s)), range: None }
Scalar(s) == [contents |-> "Scalar", kind |-> "String", value |-> s]

\* Result<Option<Hover>>, and a handler that unwound by a panic.
Ok(h) == [tag |-> "Ok", hover |-> h, msg |-> ""]
Err(m) == [tag |-> "Err", hover |-> None, msg |-> m]
Panic(m) == [tag |-> "Panic", hover |-> None, msg |-> m]

\* The message of Option::unwrap on a None.
UnwrapNone == "called Option::unwrap() on a None value"

\* {:?} of a Position and of a PathBuf
DebugPos(pos) ==
  "Position { line: " \o ToString(pos.line) \o ", character: "
    \o ToString(pos.character) \o " }"
DebugPath(p) == "\"" \o p.dir \o "/" \o p.stem \o "." \o p.ext \o "\""

(***************************************************************************)
(* Backend::get_hover (src/hover.rs).  The index is a DashMap, whose       *)
(* iteration order is not specified: GetHoverOutcomes is the set of        *)
(* results the scan can produce, one for each entry it may meet first      *)
(* among those whose stem equals the type name.                            *)
(***************************************************************************)
\* The index entries taken without comparing their stems.
StemMatches_any(index, nav_type) == DOMAIN index

StemMatches(index, nav_type) ==
  {p \in DOMAIN index : IsSome(file_stem(p)) /\ Unwrap(file_stem(p)) = nav_type}

NavigationSuffixOutcomes(index, t, node) ==
  LET name == t[node].text
      target == t[t[node].parent].prev
      nav_type == get_navigation_type(t, t[target].text)
      entries == StemMatches(index, Unwrap(nav_type))
      Found(p) == get_function(Parse(index[p]), name)
  IN IF target = 0 THEN {Err("no navigation expression found")}
     ELSE IF nav_type = None THEN {Err("no type for navigation expression found")}
     ELSE IF entries = {} THEN {Err("No file found for " \o Unwrap(nav_type))}
     ELSE {IF IsSome(Found(p))
           THEN Ok(Some(Markup(CodeBlock(Unwrap(Found(p))))))
           ELSE Err("no function with name " \o name \o " found in " \o DebugPath(p))
           : p \in entries}

GetHoverOutcomes(index, pos, t) ==
  LET node == get_node(t, pos)
      parent == t[node].parent
      name == t[node].text
      function == get_function(t, name)
      navigation == get_navigation(t, name)
  IN IF node = 0 THEN {Err("node at " \o DebugPos(pos) \o " not found")}
     ELSE IF parent = 0 THEN {Err("node has no parent")}
     ELSE CASE t[parent].kind = "call_expression" ->
                 IF function = None
                 THEN {Err("function " \o name \o " not found")}
                 ELSE {Ok(Some(Markup(CodeBlock(Unwrap(function)))))}
            [] t[parent].kind = "navigation_expression" ->
                 IF navigation = None
                 THEN {Err("navigation expression " \o name \o " not found")}
                 ELSE {Ok(Some(Markup(CodeBlock(Unwrap(navigation)))))}
            [] t[parent].kind = "navigation_suffix" ->
                 NavigationSuffixOutcomes(index, t, node)
            [] OTHER -> {Err(t[parent].kind \o " is not supported")}

(***************************************************************************)
(* Backend::hover (src/main.rs): every unwrap of a None is a panic.        *)
(***************************************************************************)
HoverOutcome(index, p, pos) ==
  LET t == Parse(index[p])
      target_node == get_node(t, pos)
      parent == t[target_node].parent
      name == t[target_node].text
      function == get_function(t, name)
  IN IF p \notin DOMAIN index THEN Panic(UnwrapNone)
     ELSE IF target_node = 0 THEN Panic(UnwrapNone)
     ELSE IF parent = 0 THEN Panic(UnwrapNone)
     ELSE IF t[parent].kind = "call_expression"
          THEN IF function = None
               THEN Panic(UnwrapNone)
               ELSE Ok(Some(Markup(CodeBlock(Unwrap(function)))))
          ELSE Ok(Some(Scalar(t[parent].kind \o " is not supported yet")))

(***************************************************************************)
(* Function bodies and their identifiers (src/kotlin/class/function.rs).   *)
(***************************************************************************)
\* kotlin::Position::new
Position(line, char) == [line |-> line, char |-> char]

\* FunctionParameter { name, type_identifier: DataType }
FunctionParameter(name, ty) == [name |-> name, type_identifier |-> ty]

\* Identifier { name, range, data_type }
Identifier(name, range, data_type) ==
  [name |-> name, range |-> range, data_type |-> data_type]

\* in_range with the end of the range left out, as a half-open span reads.
in_range_half_open(id, pos) ==
  LET start == id.range[1]
      end == id.range[2]
  IN start.line = pos.line /\ start.char <= pos.char /\ end.char > pos.char

\* Identifier::in_range
in_range(id, pos) ==
  LET start == id.range[1]
      end == id.range[2]
  IN start.line = pos.line /\ start.char <= pos.char /\ end.char >= pos.char

\* Identifier::hover
Identifier_hover(id) ==
  IF id.data_type = None THEN None
  ELSE Some(Markup(CodeBlock(id.name \o ": " \o Unwrap(id.data_type))))

\* Iterator::find over a sequence: the first element that satisfies Test.
Find(seq, Test(_)) ==
  LET hits == {i \in 1..Len(seq) : Test(seq[i])}
  IN IF hits = {} THEN None
     ELSE Some(seq[CHOOSE i \in hits : \A j \in hits : i <= j])

\* The turn were it to take the type of the last parameter of the name.
PopulateStep_last_parameter(typed_identifiers, parameters, identifier) ==
  LET SameName(i) == i.name = identifier.name
      typed_id == Find(typed_identifiers, SameName)
      named == {p \in 1..Len(parameters) : parameters[p].name = identifier.name}
  IN IF IsSome(typed_id)
     THEN Append(typed_identifiers,
                 Identifier(identifier.name, identifier.range, Unwrap(typed_id).data_type))
     ELSE IF named # {}
     THEN Append(typed_identifiers,
                 Identifier(identifier.name, identifier.range,
                            Some(parameters[CHOOSE p \in named : \A q \in named : q <= p]
                                   .type_identifier)))
     ELSE Append(typed_identifiers,
                 Identifier(identifier.name, identifier.range, None))

\* One turn of the for loop of FunctionBody::populate_types.
PopulateStep(typed_identifiers, parameters, identifier) ==
  LET SameName(i) == i.name = identifier.name
      typed_id == Find(typed_identifiers, SameName)
      param == Find(parameters, SameName)
  IN IF IsSome(typed_id)
     THEN Append(typed_identifiers,
                 Identifier(identifier.name, identifier.range, Unwrap(typed_id).data_type))
     ELSE IF IsSome(param)
     THEN Append(typed_identifiers,
                 Identifier(identifier.name, identifier.range,
                            Some(Unwrap(param).type_identifier)))
     ELSE Append(typed_identifiers,
                 Identifier(identifier.name, identifier.range, None))

RECURSIVE PopulateFrom(_, _, _, _)
PopulateFrom(identifiers, parameters, k, typed_identifiers) ==
  IF k > Len(identifiers) THEN typed_identifiers
  ELSE PopulateFrom(identifiers, parameters, k + 1,
                    PopulateStep(typed_identifiers, parameters, identifiers[k]))

\* FunctionBody::populate_types
FunctionBody_populate_types(identifiers, parameters) ==
  PopulateFrom(identifiers, parameters, 1, << >>)

\* Function::populate_types: a function is kept as its parameters and the
\* identifiers of its body (None when it has no body).
Function_populate_types(f) ==
  IF f.body = None THEN f
  ELSE [f EXCEPT !.body = Some(FunctionBody_populate_types(Unwrap(f.body), f.parameters))]

\* The hover of a function at a position: that of the first identifier of its
\* body the position is in.
Function_get_elem(f, pos) ==
  LET Hit(i) == in_range(i, pos)
      found == IF f.body = None THEN None ELSE Find(Unwrap(f.body), Hit)
  IN IF found = None THEN None ELSE Identifier_hover(Unwrap(found))

(***************************************************************************)
(* Building the model of a file (src/kotlin).  A Result is Ok with a value *)
(* or Err with a message.                                                  *)
(***************************************************************************)
OkV(v) == [tag |-> "Ok", val |-> v, msg |-> ""]
ErrV(m) == [tag |-> "Err", val |-> << >>, msg |-> m]
\* A panic on its way up the stack: no value is returned.
PanicV(m) == [tag |-> "Panic", val |-> << >>, msg |-> m]

\* The ? operator: the Err of r handed on (a panic unwinds through it), else
\* Then of the value of r (r is evaluated once).
Try(r, Then(_)) ==
  CHOOSE v \in {IF x.tag # "Ok" THEN x ELSE Then(x.val) : x \in {r}} : TRUE

\* A call whose Result is not handed on by ?: Then of the Result, unless the
\* call panicked.
Unwind(r, Then(_)) ==
  CHOOSE v \in {IF x.tag = "Panic" THEN x ELSE Then(x) : x \in {r}} : TRUE

\* Option::context followed by ?
context(o, m) == IF o = None THEN ErrV(m) ELSE OkV(Unwrap(o))

\* Node::children, in order.
RECURSIVE Siblings(_, _)
Siblings(t, n) == IF n = 0 THEN << >> ELSE <<n>> \o Siblings(t, t[n].next)
children(t, n) == Siblings(t, t[n].first)

\* Node::child(i), None when there is none.
child(t, n, i) == IF i < Len(children(t, n)) THEN Some(children(t, n)[i + 1]) ELSE None

\* Point as Display prints it.
start_position(t, n) == "(" \o ToString(t[n].srow) \o ", " \o ToString(t[n].scol) \o ")"

\* bail!("<who>unhandled child {} '{}' at {}", ...)
Unhandled(who, t, n) ==
  ErrV(who \o "unhandled child " \o t[n].kind \o " '" \o t[n].text \o "' at "
       \o start_position(t, n))

\* A for loop over nodes whose body may leave by ?: the accumulator after
\* the nodes from the k-th on, or the first Err.
RECURSIVE TryFold(_, _, _, _)
TryFold(Body(_, _), nodes, k, acc) ==
  IF acc.tag # "Ok" \/ k > Len(nodes) THEN acc
  ELSE TryFold(Body, nodes, k + 1, Body(acc.val, nodes[k]))

\* Type::NonNullable / Type::Nullable
Type(variant, name) == [variant |-> variant, name |-> name]

\* class::Modifier::new
Modifier_new(t, n) ==
  CASE t[n].kind = "visibility_modifier" -> OkV(<<"Visibility", t[n].text>>)
    [] t[n].kind = "class_modifier" -> OkV(<<"Class", t[n].text>>)
    [] t[n].kind = "annotation" -> OkV(<<"Annotation", t[n].text>>)
    [] t[n].kind = "inheritance_modifier" -> OkV(<<"Inheritance", t[n].text>>)
    [] OTHER -> ErrV("unknown modifier " \o t[n].kind)

\* The loop over the children of a modifiers node that pushes Modifier::new.
Modifiers(t, n, sofar) ==
  LET Body(acc, c) == Try(Modifier_new(t, c), LAMBDA m : OkV(Append(acc, m)))
  IN TryFold(Body, children(t, n), 1, OkV(sofar))

\* The modifier loops of Property::new and Function::new.
MemberModifiers(t, n, sofar, kinds) ==
  LET Variant(k) ==
        CASE k = "annotation" -> "Annotation"
          [] k = "member_modifier" -> "Member"
          [] k = "visibility_modifier" -> "Visibility"
          [] k = "function_modifier" -> "Function"
          [] k = "inheritance_modifier" -> "Inheritance"
      Body(acc, c) ==
        IF t[c].kind \in kinds THEN OkV(Append(acc, <<Variant(t[c].kind), t[c].text>>))
        ELSE ErrV("unknown modifier " \o t[c].kind)
  IN TryFold(Body, children(t, n), 1, OkV(sofar))

\* Property::new.  ret is the value of the return inside the loop.
Property_new(t, node) ==
  LET Body(acc, c) ==
        IF IsSome(acc.ret) THEN OkV(acc)
        ELSE IF t[c].kind = "modifiers"
        THEN Try(MemberModifiers(t, c, acc.modifiers,
                   {"annotation", "member_modifier", "visibility_modifier",
                    "inheritance_modifier"}),
                 LAMBDA m : OkV([acc EXCEPT !.modifiers = m]))
        ELSE IF t[c].kind = "variable_declaration"
        THEN Try(context(child(t, c, 0), "no name found for variable declaration"),
                 LAMBDA name_node :
                   OkV([acc EXCEPT !.ret = Some(
                     [modifiers |-> acc.modifiers,
                      name |-> t[name_node].text,
                      type_identifier |-> IF IsSome(child(t, c, 2))
                                          THEN Some(t[Unwrap(child(t, c, 2))].text)
                                          ELSE None])]))
        ELSE OkV(acc)
  IN Try(TryFold(Body, children(t, node), 1, OkV([modifiers |-> << >>, ret |-> None])),
         LAMBDA end : context(end.ret, "no property found"))

\* One turn of the loop of FunctionBody::new over the subtree of root.
FunctionBodyStep(t, root, s) ==
  LET n == s.cur
      identifiers ==
        IF t[n].kind = "simple_identifier"
        THEN Append(s.ret, Identifier(t[n].text,
                                      <<Position(t[n].srow, t[n].scol),
                                        Position(t[n].erow, t[n].ecol)>>,
                                      None))
        ELSE s.ret
      nxt == Advance(t, root, n)
  IN IF nxt = 0 THEN [cur |-> n, ret |-> identifiers, done |-> TRUE]
     ELSE [cur |-> nxt, ret |-> identifiers, done |-> FALSE]

\* FunctionBody::new
FunctionBody_new(t, node) ==
  LET Body(s) == FunctionBodyStep(t, node, s)
  IN OkV(Loop(Body, Len(t), [cur |-> node, ret |-> << >>, done |-> FALSE]).ret)

\* The loop of Function::new over the children of function_value_parameters.
FunctionParameters(t, n, sofar) ==
  LET Body(acc, c) ==
        IF t[c].kind # "parameter" THEN OkV(acc)
        ELSE Try(context(child(t, c, 0), "no parameter name found"),
                 LAMBDA name_node :
                   Try(context(child(t, c, 2), "no type identifier found"),
                       LAMBDA type_node :
                         OkV(Append(acc, FunctionParameter(t[name_node].text,
                                                           t[type_node].text)))))
  IN TryFold(Body, children(t, n), 1, OkV(sofar))

\* Function::new
Function_new(t, node) ==
  LET Body(acc, c) ==
        CASE t[c].kind = "modifiers" ->
               Try(MemberModifiers(t, c, acc.modifiers,
                     {"annotation", "member_modifier", "visibility_modifier",
                      "function_modifier", "inheritance_modifier"}),
                   LAMBDA m : OkV([acc EXCEPT !.modifiers = m]))
          [] t[c].kind = "simple_identifier" ->
               OkV([acc EXCEPT !.name = Some(t[c].text)])
          [] t[c].kind = "function_value_parameters" ->
               Try(FunctionParameters(t, c, acc.parameters),
                   LAMBDA p : OkV([acc EXCEPT !.parameters = p]))
          [] t[c].kind \in {"user_type", "nullable_type"} ->
               OkV([acc EXCEPT !.return_type = Some(t[c].text)])
          [] t[c].kind = "function_body" ->
               Try(FunctionBody_new(t, c), LAMBDA b : OkV([acc EXCEPT !.body = Some(b)]))
          [] OTHER -> OkV(acc)
  IN Try(TryFold(Body, children(t, node), 1,
                 OkV([modifiers |-> << >>, name |-> None, parameters |-> << >>,
                      return_type |-> None, body |-> None])),
         LAMBDA end :
           Try(context(end.name, "no name found for function"),
               LAMBDA name : OkV([end EXCEPT !.name = name])))

\* ClassParameter::new
ClassParameter_new(t, node) ==
  LET Body(acc, c) ==
        CASE t[c].kind = "val" -> OkV([acc EXCEPT !.mutability = Some("Val")])
          [] t[c].kind = "var" -> OkV([acc EXCEPT !.mutability = Some("Var")])
          [] t[c].kind = "modifiers" ->
               Try(Modifiers(t, c, acc.modifiers),
                   LAMBDA m : OkV([acc EXCEPT !.modifiers = m]))
          [] t[c].kind = "simple_identifier" -> OkV([acc EXCEPT !.name = Some(t[c].text)])
          [] t[c].kind = "user_type" ->
               OkV([acc EXCEPT !.data_type = Some(Type("NonNullable", t[c].text))])
          [] t[c].kind = "nullable_type" ->
               OkV([acc EXCEPT !.data_type = Some(Type("Nullable", t[c].text))])
          [] t[c].kind = ":" -> OkV(acc)
          [] OTHER -> Unhandled("ClassParameter: ", t, c)
  IN Try(TryFold(Body, children(t, node), 1,
                 OkV([mutability |-> None, name |-> None, data_type |-> None,
                      modifiers |-> << >>])),
         LAMBDA end :
           Try(context(end.mutability, "no mutability found"),
               LAMBDA mutability :
                 Try(context(end.name, "no name found"),
                     LAMBDA name :
                       Try(context(end.data_type, "no data_type found"),
                           LAMBDA data_type :
                             OkV([mutability |-> mutability, name |-> name,
                                  data_type |-> data_type,
                                  modifiers |-> end.modifiers])))))

\* Constructor::new
Constructor_new(t, node) ==
  LET Body(acc, c) ==
        CASE t[c].kind \in {"(", ",", ")", "constructor"} -> OkV(acc)
          [] t[c].kind = "modifiers" ->
               Try(Modifiers(t, c, acc.modifiers),
                   LAMBDA m : OkV([acc EXCEPT !.modifiers = m]))
          [] t[c].kind = "class_parameter" ->
               Try(ClassParameter_new(t, c),
                   LAMBDA p : OkV([acc EXCEPT !.parameters = Append(@, p)]))
          [] OTHER -> Unhandled("", t, c)
  IN TryFold(Body, children(t, node), 1,
             OkV([modifiers |-> << >>, parameters |-> << >>]))

\* argument::get_arguments: the arguments of a value_arguments node, each
\* kept as its source text.
get_arguments(t, node) ==
  LET Body(acc, c) ==
        IF t[c].kind = "value_argument" THEN OkV(Append(acc, t[c].text)) ELSE OkV(acc)
  IN TryFold(Body, children(t, node), 1, OkV(<< >>))

\* ConstructorInvocation::new
ConstructorInvocation_new(t, node) ==
  LET Body(acc, c) ==
        CASE t[c].kind = "user_type" ->
               OkV([acc EXCEPT !.data_type = Some(Type("NonNullable", t[c].text))])
          [] t[c].kind = "value_arguments" ->
               Try(get_arguments(t, c),
                   LAMBDA args : OkV([acc EXCEPT !.arguments = Some(args)]))
          [] OTHER -> Unhandled("", t, c)
  IN Try(TryFold(Body, children(t, node), 1,
                 OkV([data_type |-> None, arguments |-> None])),
         LAMBDA end :
           Try(context(end.data_type, "no data type found"),
               LAMBDA data_type :
                 Try(context(end.arguments, "no arguments found"),
                     LAMBDA arguments :
                       OkV([data_type |-> data_type, arguments |-> arguments]))))

\* Delegation::new
Delegation_new(t, node) ==
  Try(context(child(t, node, 0), "no delegation specifier child"),
      LAMBDA c :
        CASE t[c].kind = "user_type" ->
               OkV(<<"Type", Type("NonNullable", t[c].text)>>)
          [] t[c].kind = "constructor_invocation" ->
               Try(ConstructorInvocation_new(t, c),
                   LAMBDA inv : OkV(<<"ConstructorInvocation", inv>>))
          [] OTHER -> Unhandled("", t, c))

RECURSIVE ClassMember(_, _, _)
RECURSIVE new_class_body(_, _)

\* What the constructors of the nodes that hold a class body do with one
\* child of kind modifiers, delegation_specifier or class_body.
Held(t, acc, c, body_field) ==
  CASE t[c].kind = "modifiers" ->
         Try(Modifiers(t, c, acc.modifiers),
             LAMBDA m : OkV([acc EXCEPT !.modifiers = m]))
    [] t[c].kind = "delegation_specifier" ->
         Try(Delegation_new(t, c),
             LAMBDA d : OkV([acc EXCEPT !.delegations = Append(@, d)]))
    [] t[c].kind = "class_body" ->
         Try(new_class_body(t, c),
             LAMBDA b : OkV([acc EXCEPT ![body_field] = Some(b)]))

\* CompanionObject::new
CompanionObject_new(t, node) ==
  LET Body(acc, c) ==
        CASE t[c].kind \in {"companion", "object"} -> OkV(acc)
          [] t[c].kind = "class_body" -> Held(t, acc, c, "body")
          [] OTHER -> Unhandled("[ClassBody::CompanionObject] ", t, c)
  IN Try(TryFold(Body, children(t, node), 1, OkV([body |-> None])),
         LAMBDA end :
           Try(context(end.body, "no class body found"),
               LAMBDA body : OkV([body |-> body])))

\* Object::new
Object_new(t, node) ==
  LET Body(acc, c) ==
        CASE t[c].kind \in {"object", ":"} -> OkV(acc)
          [] t[c].kind \in {"modifiers", "delegation_specifier", "class_body"} ->
               Held(t, acc, c, "class_body")
          [] t[c].kind = "type_identifier" -> OkV([acc EXCEPT !.name = Some(t[c].text)])
          [] OTHER -> Unhandled("[Object] ", t, c)
  IN Try(TryFold(Body, children(t, node), 1,
                 OkV([modifiers |-> << >>, name |-> None, delegations |-> << >>,
                      class_body |-> None])),
         LAMBDA end :
           Try(context(end.name, "no name found"),
               LAMBDA name : OkV([end EXCEPT !.name = name])))

\* KotlinClass::new
KotlinClass_new(t, node) ==
  LET Body(acc, c) ==
        CASE t[c].kind = ":" -> OkV(acc)
          [] t[c].kind \in {"modifiers", "delegation_specifier", "class_body"} ->
               Held(t, acc, c, "body")
          [] t[c].kind = "class" -> OkV([acc EXCEPT !.class_type = Some("Class")])
          [] t[c].kind = "interface" -> OkV([acc EXCEPT !.class_type = Some("Interface")])
          [] t[c].kind = "enum" -> OkV([acc EXCEPT !.class_type = Some("Enum")])
          [] t[c].kind = "type_identifier" ->
               OkV([acc EXCEPT !.name = Some(Type("NonNullable", t[c].text))])
          [] t[c].kind = "primary_constructor" ->
               Try(Constructor_new(t, c),
                   LAMBDA k : OkV([acc EXCEPT !.constructor = Some(k)]))
          [] OTHER -> Unhandled("KotlinClass: ", t, c)
  IN Try(TryFold(Body, children(t, node), 1,
                 OkV([modifiers |-> << >>, class_type |-> None, name |-> None,
                      constructor |-> None, body |-> None, delegations |-> << >>])),
         LAMBDA end :
           Try(context(end.class_type, "no class type found"),
               LAMBDA class_type :
                 Try(context(end.name, "no class name found"),
                     LAMBDA name :
                       OkV([end EXCEPT !.class_type = class_type, !.name = name]))))

\* The member a child of a class body builds into, by the child's kind.
ClassMember(t, c, kind) ==
  CASE kind = "property_declaration" -> Property_new(t, c)
    [] kind = "function_declaration" -> Function_new(t, c)
    [] kind = "object_declaration" -> Object_new(t, c)
    [] kind = "class_declaration" -> KotlinClass_new(t, c)
    [] kind = "companion_object" -> CompanionObject_new(t, c)

\* ClassBody::new_class_body
new_class_body(t, node) ==
  LET Field(kind) ==
        CASE kind = "property_declaration" -> "properties"
          [] kind = "function_declaration" -> "functions"
          [] kind = "object_declaration" -> "objects"
          [] kind = "class_declaration" -> "classes"
          [] kind = "companion_object" -> "companion_objects"
      Body(acc, c) ==
        CASE t[c].kind \in {"{", "}", "line_comment"} -> OkV(acc)
          [] t[c].kind \in {"property_declaration", "function_declaration",
                            "object_declaration", "class_declaration",
                            "companion_object"} ->
               Try(ClassMember(t, c, t[c].kind),
                   LAMBDA m : OkV([acc EXCEPT ![Field(t[c].kind)] = Append(@, m)]))
          [] OTHER -> Unhandled("[ClassBody::Class] ", t, c)
  IN TryFold(Body, children(t, node), 1,
             OkV([properties |-> << >>, functions |-> << >>, objects |-> << >>,
                  classes |-> << >>, companion_objects |-> << >>]))

\* One turn of the loop of get_package.
GetPackageStep(t, s) ==
  LET n == s.cur
  IN IF t[n].kind = "package"
     THEN Return(n, IF t[n].next # 0 THEN t[t[n].next].text ELSE "")
     ELSE MoveOn(t, n, "")

\* package::get_package
get_package(t) ==
  LET Body(s) == GetPackageStep(t, s)
  IN OkV(Loop(Body, Len(t), [cur |-> 1, ret |-> "", done |-> FALSE]).ret)

\* The state of a walk that collects values and may leave by ?: it goes on
\* from node n with the values r, or is done at an Err and at the last node
\* (a panic ends it as well).
Collect(t, n, r) ==
  [cur |-> IF r.tag # "Ok" \/ Advance(t, 1, n) = 0 THEN n ELSE Advance(t, 1, n),
   ret |-> r,
   done |-> r.tag # "Ok" \/ Advance(t, 1, n) = 0]

\* One turn of the loop of get_imports.
GetImportsStep(t, s) ==
  LET n == s.cur
  IN IF t[n].kind = "import"
     THEN Collect(t, n, IF t[n].next = 0 THEN ErrV("malformed import")
                        ELSE OkV(Append(s.ret.val, t[t[n].next].text)))
     ELSE Collect(t, n, s.ret)

\* import::get_imports
get_imports(t) ==
  LET Body(s) == GetImportsStep(t, s)
  IN Loop(Body, Len(t), [cur |-> 1, ret |-> OkV(<< >>), done |-> FALSE]).ret

\* One turn of the loop of get_classes.
GetClassesStep(t, s) ==
  LET n == s.cur
  IN IF t[n].kind = "class_declaration"
     THEN Collect(t, n, Try(KotlinClass_new(t, n),
                            LAMBDA class : OkV(Append(s.ret.val, class))))
     ELSE Collect(t, n, s.ret)

\* class::get_classes
get_classes(t) ==
  LET Body(s) == GetClassesStep(t, s)
  IN Loop(Body, Len(t), [cur |-> 1, ret |-> OkV(<< >>), done |-> FALSE]).ret

\* KotlinFile::new
KotlinFile_new(t) ==
  Try(get_package(t), LAMBDA package :
    Try(get_imports(t), LAMBDA imports :
      Try(get_classes(t), LAMBDA classes :
        OkV([package |-> package, imports |-> imports, classes |-> classes]))))

\* KotlinClass::populate_types: the functions of the class body get their
\* body identifiers typed.
KotlinClass_populate_types(class) ==
  IF class.body = None THEN class
  ELSE [class EXCEPT !.body = Some([Unwrap(class.body) EXCEPT !.functions =
          [k \in 1..Len(Unwrap(class.body).functions) |->
             Function_populate_types(Unwrap(class.body).functions[k])]])]

\* KotlinClass::get_elem: the hover of the first function of the class body
\* that has one at the position.
KotlinClass_get_elem(class, pos) ==
  IF class.body = None THEN None
  ELSE LET fs == Unwrap(class.body).functions
           elems == [k \in 1..Len(fs) |-> Function_get_elem(fs[k], pos)]
           hits == {k \in 1..Len(fs) : elems[k] # None}
       IN IF hits = {} THEN None
          ELSE elems[CHOOSE k \in hits : \A j \in hits : k <= j]

\* KotlinFile::populate_types
KotlinFile_populate_types(f) ==
  [f EXCEPT !.classes = [k \in 1..Len(f.classes) |-> KotlinClass_populate_types(f.classes[k])]]

\* KotlinFile::hover_element
hover_element(f, pos) ==
  LET elems == [k \in 1..Len(f.classes) |-> KotlinClass_get_elem(f.classes[k], pos)]
      hits == {k \in 1..Len(f.classes) : elems[k] # None}
  IN IF hits = {} THEN None
     ELSE elems[CHOOSE k \in hits : \A j \in hits : k <= j]

(***************************************************************************)
(* The language server.  disk is the set of files under the project root;  *)
(* trees is Backend::trees, the index from path to (tree, content), kept   *)
(* here as the content the tree was parsed from; phase follows the LSP     *)
(* lifecycle; reply is the outcome of the request being answered.          *)
(***************************************************************************)
NoPath == Path("", "", "")
NoPos == [line |-> 0, character |-> 0]

\* node is the node get_node resolved for the request (0 when none, or when the
\* request did not get that far).
Reply(op, p, pos, node, out) ==
  [op |-> op, path |-> p, pos |-> pos, node |-> node, out |-> out]
NoReply == Reply("none", NoPath, NoPos, 0, Ok(None))

EmptyIndex == [p \in {} |-> ""]

\* The values of the variables a specification does not use.
Running == [tag |-> "Running", val |-> << >>, msg |-> ""]
NoFile == [package |-> "", imports |-> << >>, classes |-> << >>]
NoElem == [asked |-> FALSE, pos |-> Position(0, 0), hover |-> None]
ServerIdle == disk = {} /\ trees = EmptyIndex /\ phase = "uninitialized" /\ reply = NoReply
BuildIdle == walk = {} /\ files = EmptyIndex /\ typed_files = EmptyIndex /\ built = Running
TypesIdle == file = NoFile /\ typed = FALSE /\ elem = NoElem
CstIdle == cst = << >> /\ made = Running /\ remade = Running /\ parsed = Running
ConcIdle == order = << >> /\ populated = EmptyIndex /\ inflight = {}
\* No walk is under way.
NoCall == [fn |-> "none", name |-> "", pos |-> NoPos]
CursorIdle == called = NoCall /\ cursor = [cur |-> 0, done |-> TRUE] /\ visited = << >>
ExprIdle ==
  /\ CursorIdle
  /\ stmts = Running /\ expr = Running /\ expr_rs = Running /\ prop = Running
  /\ literal = Running /\ built_function = Running /\ class_function = Running
  /\ file_classes = Running
  /\ overflow_checks = FALSE

Init ==
  /\ disk \in SUBSET AllFiles
  /\ trees = EmptyIndex
  /\ phase = "uninitialized"
  /\ reply = NoReply
  /\ BuildIdle
  /\ TypesIdle
  /\ CstIdle
  /\ ConcIdle
  /\ ExprIdle

\* Backend::initialize: params.root_uri.unwrap(), then one insert per .kt file.
Initialize ==
  /\ phase = "uninitialized"
  /\ reply = NoReply
  /\ \E root_uri \in {None, Some("/")} :
       IF root_uri = None
       THEN /\ phase' = "crashed"
            /\ reply' = Reply("initialize", NoPath, NoPos, 0, Panic(UnwrapNone))
            /\ UNCHANGED <<disk, trees>>
       ELSE /\ trees' = [p \in KtFiles(disk) |-> Content(p)]
            /\ phase' = "initialized"
            /\ reply' = Reply("initialize", NoPath, NoPos, 0, Ok(None))
            /\ UNCHANGED disk
  /\ UNCHANGED <<buildVars, typeVars, cstVars, concVars, exprVars>>

\* Backend::initialized
Initialized ==
  /\ phase = "initialized"
  /\ reply = NoReply
  /\ reply' = Reply("initialized", NoPath, NoPos, 0, Ok(None))
  /\ UNCHANGED <<disk, trees, phase>>
  /\ UNCHANGED <<buildVars, typeVars, cstVars, concVars, exprVars>>

\* Backend::did_open
DidOpen ==
  /\ phase = "initialized"
  /\ reply = NoReply
  /\ reply' = Reply("did_open", NoPath, NoPos, 0, Ok(None))
  /\ UNCHANGED <<disk, trees, phase>>
  /\ UNCHANGED <<buildVars, typeVars, cstVars, concVars, exprVars>>

\* Backend::did_save
DidSave ==
  /\ phase = "initialized"
  /\ reply = NoReply
  /\ \E p \in AllFiles : reply' = Reply("did_save", p, NoPos, 0, Ok(None))
  /\ UNCHANGED <<disk, trees, phase>>
  /\ UNCHANGED <<buildVars, typeVars, cstVars, concVars, exprVars>>

\* Backend::hover
Hover ==
  /\ phase = "initialized"
  /\ reply = NoReply
  /\ \E p \in AllFiles, pos \in Positions :
       LET out == HoverOutcome(trees, p, pos)
           node == IF p \in DOMAIN trees THEN get_node(Parse(trees[p]), pos) ELSE 0
       IN /\ reply' = Reply("hover", p, pos, node, out)
          /\ phase' = IF out.tag = "Panic" THEN "crashed" ELSE phase
  /\ UNCHANGED <<disk, trees>>
  /\ UNCHANGED <<buildVars, typeVars, cstVars, concVars, exprVars>>

\* Backend::get_hover, called with the tree and content of an indexed path.
GetHover ==
  /\ phase = "initialized"
  /\ reply = NoReply
  /\ \E p \in DOMAIN trees, pos \in Positions :
       \E out \in GetHoverOutcomes(trees, pos, Parse(trees[p])) :
         reply' = Reply("get_hover", p, pos, get_node(Parse(trees[p]), pos), out)
  /\ UNCHANGED <<disk, trees, phase>>
  /\ UNCHANGED <<buildVars, typeVars, cstVars, concVars, exprVars>>

\* Backend::shutdown
Shutdown ==
  /\ phase = "initialized"
  /\ reply = NoReply
  /\ phase' = "shutdown"
  /\ reply' = Reply("shutdown", NoPath, NoPos, 0, Ok(None))
  /\ UNCHANGED <<disk, trees>>
  /\ UNCHANGED <<buildVars, typeVars, cstVars, concVars, exprVars>>

\* The answer leaves the server; a server that panicked answers no more.
Respond ==
  /\ reply # NoReply
  /\ phase # "crashed"
  /\ reply' = NoReply
  /\ UNCHANGED <<disk, trees, phase>>
  /\ UNCHANGED <<buildVars, typeVars, cstVars, concVars, exprVars>>

Next ==
  \/ Initialize
  \/ Initialized
  \/ DidOpen
  \/ DidSave
  \/ Hover
  \/ GetHover
  \/ Shutdown
  \/ Respond

Spec == Init /\ [][Next]_vars

(***************************************************************************)
(* kotlin::from_path, one action per turn of its two loops.  walk is what  *)
(* the directory walk has still to yield, files and typed_files are the    *)
(* two maps of the function, built is what it returned (Running until it   *)
(* returns).  The walk yields the files in an order the file system picks. *)
(***************************************************************************)
BuildInit ==
  /\ disk \in SUBSET AllFiles
  /\ trees = EmptyIndex
  /\ phase = "uninitialized"
  /\ reply = NoReply
  /\ walk = KtFiles(disk)
  /\ files = EmptyIndex
  /\ typed_files = EmptyIndex
  /\ built = Running
  /\ TypesIdle
  /\ CstIdle
  /\ ConcIdle
  /\ ExprIdle

\* A turn of the first loop: KotlinFile::new(..).context(..)? and the insert.
ReadFile ==
  /\ built = Running
  /\ \E path \in walk :
       LET r == KotlinFile_new(Parse(Content(path)))
       IN IF r.tag = "Err"
          THEN /\ built' = ErrV("file: " \o DebugPath(path) \o ": " \o r.msg)
               /\ UNCHANGED <<walk, files>>
          ELSE /\ files' = [p \in DOMAIN files \cup {path} |->
                              IF p = path THEN r.val ELSE files[p]]
               /\ walk' = walk \ {path}
               /\ UNCHANGED built
  /\ UNCHANGED <<typed_files, serverVars, typeVars, cstVars, concVars, exprVars>>

\* A turn of the second loop: the entry moves from files to typed_files.
PopulateFile ==
  /\ built = Running
  /\ walk = {}
  /\ \E path \in DOMAIN files :
       /\ typed_files' = [p \in DOMAIN typed_files \cup {path} |->
                            IF p = path THEN KotlinFile_populate_types(files[path])
                            ELSE typed_files[p]]
       /\ files' = [p \in DOMAIN files \ {path} |-> files[p]]
  /\ UNCHANGED <<walk, built, serverVars, typeVars, cstVars, concVars, exprVars>>

\* Ok(typed_files)
ReturnFiles ==
  /\ built = Running
  /\ walk = {}
  /\ DOMAIN files = {}
  /\ built' = OkV(typed_files)
  /\ UNCHANGED <<walk, files, typed_files, serverVars, typeVars, cstVars, concVars, exprVars>>

BuildNext ==
  \/ ReadFile
  \/ PopulateFile
  \/ ReturnFiles

SpecBuild == BuildInit /\ [][BuildNext]_vars

(***************************************************************************)
(* Typing the identifiers of a function body and hovering them.  file is a *)
(* KotlinFile with one class that has one function; its parameters and the *)
(* identifiers of its body are drawn from the bounded sets below.          *)
(***************************************************************************)
MaxParams == 2
MaxIdents == 3

ParamNames == {"a", "b"}
IdentNames == {"a", "b", "c"}
DataTypes == {"String", "Int"}

\* Parameter lists of at most MaxParams parameters.
ParamLists ==
  UNION {[1..k -> [name : ParamNames, type_identifier : DataTypes]] : k \in 0..MaxParams}

\* The k-th place an identifier of one character can stand at: two to a
\* line, as in the expression a.b.
SlotLine(k) == (k - 1) \div 2
SlotChar(k) == 2 * ((k - 1) % 2)
SlotRange(k) ==
  <<Position(SlotLine(k), SlotChar(k)), Position(SlotLine(k), SlotChar(k) + 1)>>

\* The identifiers FunctionBody::new collects where the places in DOMAIN at
\* hold the names at gives them: in source order, untyped.
RECURSIVE IdentsFrom(_, _)
IdentsFrom(at, k) ==
  IF k > MaxIdents THEN << >>
  ELSE IF k \in DOMAIN at
  THEN <<Identifier(at[k], SlotRange(k), None)>> \o IdentsFrom(at, k + 1)
  ELSE IdentsFrom(at, k + 1)

Bodies ==
  {IdentsFrom(at, 1) : at \in UNION {[S -> IdentNames] : S \in SUBSET (1..MaxIdents)}}

HoverPositions ==
  {Position(l, c) : l \in 0..SlotLine(MaxIdents), c \in 0..4}

\* class K { fun f(parameters) { body } } as KotlinFile::new builds it.
FileOf(parameters, body) ==
  [package |-> "",
   imports |-> << >>,
   classes |-> <<[modifiers |-> << >>,
                  class_type |-> "Class",
                  name |-> Type("NonNullable", "K"),
                  constructor |-> None,
                  body |-> Some([properties |-> << >>,
                                 functions |-> <<[modifiers |-> << >>,
                                                  name |-> "f",
                                                  parameters |-> parameters,
                                                  return_type |-> None,
                                                  body |-> Some(body)]>>,
                                 objects |-> << >>,
                                 classes |-> << >>,
                                 companion_objects |-> << >>]),
                  delegations |-> << >>]>>]

TypesInit ==
  /\ ServerIdle
  /\ BuildIdle
  /\ CstIdle
  /\ ConcIdle
  /\ ExprIdle
  /\ \E parameters \in ParamLists, body \in Bodies : file = FileOf(parameters, body)
  /\ typed = FALSE
  /\ elem = NoElem

\* file.populate_types()
PopulateTypes ==
  /\ ~typed
  /\ file' = KotlinFile_populate_types(file)
  /\ typed' = TRUE
  /\ elem' = NoElem
  /\ UNCHANGED <<serverVars, buildVars, cstVars, concVars, exprVars>>

\* file.hover_element(&pos)
HoverElement ==
  /\ \E pos \in HoverPositions :
       elem' = [asked |-> TRUE, pos |-> pos, hover |-> hover_element(file, pos)]
  /\ UNCHANGED <<file, typed, serverVars, buildVars, cstVars, concVars, exprVars>>

TypesNext ==
  \/ PopulateTypes
  \/ HoverElement

SpecTypes == TypesInit /\ [][TypesNext]_vars

(***************************************************************************)
(* CSTs put together from parts.  A part is the pre-order list of its      *)
(* nodes, each with its depth; a leaf carries its text and whether it      *)
(* starts a line.  Link gives every node the links and the span            *)
(* tree-sitter gives it: tokens of a line stand one space apart.           *)
(***************************************************************************)
Row(d, kind, text, nl) == [depth |-> d, kind |-> kind, text |-> text, nl |-> nl]
Inner(d, kind) == Row(d, kind, "", FALSE)
Token(d, kind) == Row(d, kind, kind, FALSE)
Word(d, kind, text) == Row(d, kind, text, FALSE)
\* The part with its first leaf at the start of a line.
OnNewLine(part) ==
  LET lead == CHOOSE i \in 1..Len(part) :
                /\ (i = Len(part) \/ part[i + 1].depth <= part[i].depth)
                /\ \A j \in 1..(i - 1) : part[j + 1].depth > part[j].depth
  IN [part EXCEPT ![lead].nl = TRUE]

IsLeaf(rows, i) == i = Len(rows) \/ rows[i + 1].depth <= rows[i].depth
\* The last node of the subtree of i.
Last(rows, i) ==
  CHOOSE j \in i..Len(rows) :
    /\ \A k \in (i + 1)..j : rows[k].depth > rows[i].depth
    /\ j = Len(rows) \/ rows[j + 1].depth <= rows[i].depth
Largest(S) == CHOOSE j \in S : \A k \in S : k <= j
Smallest(S) == CHOOSE j \in S : \A k \in S : j <= k
LeavesOf(rows, i) == {k \in i..Last(rows, i) : IsLeaf(rows, k)}
LineOf(rows, i) == Cardinality({j \in 2..i : IsLeaf(rows, j) /\ rows[j].nl}) - 1

\* The column a leaf starts at.
RECURSIVE ColumnOf(_, _)
ColumnOf(rows, i) ==
  IF rows[i].nl THEN 0
  ELSE LET before == Largest({j \in 2..(i - 1) : IsLeaf(rows, j)})
       IN ColumnOf(rows, before) + Len(rows[before].text) + 1

\* The text of the leaves from k to last.
RECURSIVE TextFrom(_, _, _, _)
TextFrom(rows, k, last, first) ==
  IF k > last THEN ""
  ELSE IF ~IsLeaf(rows, k) THEN TextFrom(rows, k + 1, last, first)
  ELSE (IF first THEN "" ELSE IF rows[k].nl THEN "\n" ELSE " ")
         \o rows[k].text \o TextFrom(rows, k + 1, last, FALSE)

Link(rows) ==
  [i \in 1..Len(rows) |->
     LET d == rows[i].depth
         last == Last(rows, i)
         head == Smallest(LeavesOf(rows, i))
         lines == Cardinality({j \in 2..Len(rows) : IsLeaf(rows, j) /\ rows[j].nl})
         above == {j \in 1..(i - 1) : rows[j].depth < d}
         left == {j \in 1..(i - 1) : rows[j].depth = d /\ Last(rows, j) + 1 = i}
     IN IF i = 1
        THEN Nd(rows[1].kind,
                IF Len(rows) = 1 THEN "" ELSE TextFrom(rows, 2, Len(rows), TRUE) \o "\n",
                0, IF Len(rows) = 1 THEN 0 ELSE 2, 0, 0, 0, 0, lines, 0)
        ELSE Nd(rows[i].kind,
                TextFrom(rows, i, last, TRUE),
                Largest(above),
                IF IsLeaf(rows, i) THEN 0 ELSE i + 1,
                IF last < Len(rows) /\ rows[last + 1].depth = d THEN last + 1 ELSE 0,
                IF left = {} THEN 0 ELSE Largest(left),
                LineOf(rows, head), ColumnOf(rows, head),
                LineOf(rows, last), ColumnOf(rows, last) + Len(rows[last].text))]

(***************************************************************************)
(* Whole-file CSTs: an optional package header, some imports, some class   *)
(* declarations.                                                           *)
(***************************************************************************)
MaxImports == 2
MaxClasses == 3

\* package app
PackageHeader ==
  OnNewLine(<<Inner(1, "package_header"), Token(2, "package"),
              Inner(2, "identifier"), Word(3, "simple_identifier", "app")>>)

\* import lib1 ... import libk
RECURSIVE ImportHeaders(_)
ImportHeaders(k) ==
  IF k = 0 THEN << >>
  ELSE ImportHeaders(k - 1)
         \o OnNewLine(<<Inner(2, "import_header"), Token(3, "import"),
                        Inner(3, "identifier"),
                        Word(4, "simple_identifier", "lib" \o ToString(k))>>)
ImportList(k) == IF k = 0 THEN << >> ELSE <<Inner(1, "import_list")>> \o ImportHeaders(k)

\* The class declarations a file is put together from:
\*   class A
\*   class B { private val x : Int }
\*   expect class C
\*   class D { init { } }
ClassShapes == {"A", "B", "C", "D"}
ClassDeclaration(shape) ==
  LET head == <<Inner(1, "class_declaration"), Token(2, "class"),
                Word(2, "type_identifier", shape)>>
  IN OnNewLine(
       CASE shape = "A" -> head
         [] shape = "B" ->
              head \o <<Inner(2, "class_body"), Token(3, "{"),
                        Inner(3, "property_declaration"),
                        Inner(4, "modifiers"), Inner(5, "visibility_modifier"),
                        Token(6, "private"), Token(4, "val"),
                        Inner(4, "variable_declaration"),
                        Word(5, "simple_identifier", "x"), Token(5, ":"),
                        Inner(5, "user_type"), Word(6, "type_identifier", "Int"),
                        Token(3, "}")>>
         [] shape = "C" ->
              <<Inner(1, "class_declaration"), Inner(2, "modifiers"),
                Inner(3, "platform_modifier"), Token(4, "expect"),
                Token(2, "class"), Word(2, "type_identifier", shape)>>
         [] shape = "D" ->
              head \o <<Inner(2, "class_body"), Token(3, "{"),
                        Inner(3, "anonymous_initializer"), Token(4, "init"),
                        Inner(4, "statements_block"), Token(5, "{"), Token(5, "}"),
                        Token(3, "}")>>)

RECURSIVE ClassDeclarations(_, _)
ClassDeclarations(shapes, k) ==
  IF k > Len(shapes) THEN << >>
  ELSE ClassDeclaration(shapes[k]) \o ClassDeclarations(shapes, k + 1)

ClassLists(classes) == UNION {[1..k -> ClassShapes] : k \in 0..classes}

SourceFile(header, imports, shapes) ==
  Link(<<Inner(0, "source_file")>>
         \o (IF header THEN PackageHeader ELSE << >>)
         \o ImportList(imports)
         \o ClassDeclarations(shapes, 1))

\* The files of up to so many imports and so many class declarations.
SourceFiles(max_imports, max_classes) ==
  {SourceFile(header, imports, shapes) :
     header \in BOOLEAN, imports \in 0..max_imports, shapes \in ClassLists(max_classes)}

(***************************************************************************)
(* src/kotlin.rs: KotlinFile::new with its own get_package, get_imports    *)
(* and get_classes.                                                        *)
(***************************************************************************)
\* One turn of the loop of kotlin.rs get_package.
kotlin_GetPackageStep(t, s) ==
  LET n == s.cur
  IN IF t[n].kind = "package"
     THEN Return(n, IF t[n].next # 0 THEN OkV(t[t[n].next].text)
                    ELSE ErrV("no package found"))
     ELSE MoveOn(t, n, ErrV("no package found"))

\* kotlin.rs get_package
kotlin_get_package(t) ==
  LET Body(s) == kotlin_GetPackageStep(t, s)
  IN Loop(Body, Len(t), [cur |-> 1, ret |-> ErrV("no package found"), done |-> FALSE]).ret

\* kotlin.rs get_imports: the statements of import::get_imports, the texts
\* pushed as they are.
kotlin_get_imports(t) == get_imports(t)

\* kotlin.rs get_class_name
kotlin_get_class_name(t, node) ==
  LET named == SelectSeq(children(t, node), LAMBDA c : t[c].kind = "type_identifier")
  IN IF named = << >> THEN ErrV("no class name found") ELSE OkV(t[Head(named)].text)

\* kotlin.rs get_class_modifiers
kotlin_get_class_modifiers(t, node) ==
  LET Variant(k) ==
        CASE k = "visibility_modifier" -> "Visibility"
          [] k = "class_modifier" -> "Class"
          [] k = "annotation" -> "Annotation"
          [] k = "inheritance_modifier" -> "Inheritance"
      Inner_(acc, c) ==
        IF t[c].kind \in {"visibility_modifier", "class_modifier", "annotation",
                          "inheritance_modifier"}
        THEN OkV(Append(acc, <<Variant(t[c].kind), t[c].text>>))
        ELSE ErrV("unknown modifier " \o t[c].kind)
      Body(acc, c) ==
        IF t[c].kind = "modifiers" THEN TryFold(Inner_, children(t, c), 1, OkV(acc))
        ELSE OkV(acc)
  IN TryFold(Body, children(t, node), 1, OkV(<< >>))

\* kotlin.rs get_supertypes
kotlin_get_supertypes(t, node) ==
  LET Body(acc, c) ==
        IF t[c].kind = "delegation_specifier" THEN OkV(Append(acc, t[c].text))
        ELSE OkV(acc)
  IN TryFold(Body, children(t, node), 1, OkV(<< >>))

\* kotlin.rs get_property: the statements of Property::new.
kotlin_get_property(t, node) == Property_new(t, node)

\* kotlin.rs get_class_body
kotlin_get_class_body(t, node) ==
  LET Inner_(acc, c) ==
        IF t[c].kind = "property_declaration"
        THEN Try(kotlin_get_property(t, c), LAMBDA p : OkV(Append(acc, p)))
        ELSE OkV(acc)
      Body(acc, c) ==
        IF t[c].kind = "class_body" THEN TryFold(Inner_, children(t, c), 1, OkV(acc))
        ELSE OkV(acc)
  IN Try(TryFold(Body, children(t, node), 1, OkV(<< >>)),
         LAMBDA properties : OkV([properties |-> properties]))

\* One turn of the loop of kotlin.rs get_classes.
kotlin_GetClassesStep(t, s) ==
  LET n == s.cur
  IN IF t[n].kind = "class_declaration"
     THEN Collect(t, n,
            Try(kotlin_get_class_name(t, n), LAMBDA name :
              Try(kotlin_get_class_modifiers(t, n), LAMBDA modifiers :
                Try(kotlin_get_supertypes(t, n), LAMBDA supertypes :
                  Try(kotlin_get_class_body(t, n), LAMBDA body :
                    OkV(Append(s.ret.val,
                               [name |-> name, modifiers |-> modifiers,
                                supertypes |-> supertypes, body |-> body])))))))
     ELSE Collect(t, n, s.ret)

\* kotlin.rs get_classes
kotlin_get_classes(t) ==
  LET Body(s) == kotlin_GetClassesStep(t, s)
  IN Loop(Body, Len(t), [cur |-> 1, ret |-> OkV(<< >>), done |-> FALSE]).ret

\* kotlin.rs KotlinFile::new
kotlin_KotlinFile_new(path, t) ==
  Try(kotlin_get_package(t), LAMBDA package :
    Try(kotlin_get_imports(t), LAMBDA imports :
      Try(kotlin_get_classes(t), LAMBDA classes :
        OkV([path |-> path, package |-> package, imports |-> imports,
             classes |-> classes]))))

(***************************************************************************)
(* One CST handed to the File constructors.                                *)
(***************************************************************************)
\* A constructor that pushes onto the vectors of the earlier result.
KotlinFile_renew_onto(t, earlier) ==
  Try(KotlinFile_new(t), LAMBDA f :
    OkV([f EXCEPT !.imports = (IF earlier.tag = "Ok" THEN earlier.val.imports ELSE << >>) \o @,
                  !.classes = (IF earlier.tag = "Ok" THEN earlier.val.classes ELSE << >>) \o @]))
\* A call of KotlinFile::new after an earlier one: it takes the tree and the
\* content and starts from empty vectors; what the earlier call returned is
\* no input of it.
KotlinFile_renew(t, earlier) == KotlinFile_new(t)

FileInit ==
  /\ ServerIdle
  /\ BuildIdle
  /\ TypesIdle
  /\ cst \in SourceFiles(MaxImports, MaxClasses)
  /\ made = Running
  /\ remade = Running
  /\ parsed = Running
  /\ ConcIdle
  /\ ExprIdle

\* KotlinFile::new(&tree, &content) of kotlin/mod.rs
NewFile ==
  /\ made = Running
  /\ made' = KotlinFile_new(cst)
  /\ UNCHANGED <<cst, remade, parsed, serverVars, buildVars, typeVars, concVars, exprVars>>

\* The same call once more, on the same tree and bytes.
NewFileAgain ==
  /\ made # Running
  /\ remade = Running
  /\ remade' = KotlinFile_renew(cst, made)
  /\ UNCHANGED <<cst, made, parsed, serverVars, buildVars, typeVars, concVars, exprVars>>

\* KotlinFile::new(path, &tree, &content) of kotlin.rs
ProjectFile ==
  /\ parsed = Running
  /\ parsed' = kotlin_KotlinFile_new(SrcFoo, cst)
  /\ UNCHANGED <<cst, made, remade, serverVars, buildVars, typeVars, concVars, exprVars>>

FileNext ==
  \/ NewFile
  \/ NewFileAgain
  \/ ProjectFile

SpecFile == FileInit /\ [][FileNext]_vars

(***************************************************************************)
(* The server with several requests in flight.  tower-lsp polls the        *)
(* handlers of the requests it has received together; a handler gives way  *)
(* at each await.  The read of the index entry and the work on the copy    *)
(* are separate steps, as they are for handlers on different threads.      *)
(***************************************************************************)
MaxInFlight == 2

\* self.trees.iter(): a DashMap yields its entries in the order its hasher
\* gave them when the map was filled.
Orders(S) ==
  {o \in [1..Cardinality(S) -> S] : \A i, j \in 1..Cardinality(S) : o[i] = o[j] => i = j}

\* bail!("No file found for {nav_type}") is what a scan with no match ends in.
NoFileFound(out) ==
  /\ out.tag = "Err"
  /\ Len(out.msg) >= Len("No file found for ")
  /\ SubSeq(out.msg, 1, Len("No file found for ")) = "No file found for "

\* The scan were it to go on to the next entries when the file of the
\* matching stem has no such function.
RECURSIVE get_hover_scan_on(_, _, _, _, _)
get_hover_scan_on(index, scan, k, pos, t) ==
  LET out == CHOOSE o \in GetHoverOutcomes([q \in {scan[k]} |-> index[q]], pos, t) : TRUE
  IN IF k = Len(scan) \/ out.tag = "Ok" THEN out
     ELSE get_hover_scan_on(index, scan, k + 1, pos, t)

\* get_hover with the entries of the index looked at one by one from the
\* k-th of the order: the first entry whose stem matches returns.
RECURSIVE get_hover_scan(_, _, _, _, _)
get_hover_scan(index, scan, k, pos, t) ==
  LET out == CHOOSE o \in GetHoverOutcomes([q \in {scan[k]} |-> index[q]], pos, t) : TRUE
  IN IF k = Len(scan) \/ ~NoFileFound(out) THEN out
     ELSE get_hover_scan(index, scan, k + 1, pos, t)

\* did_save with an insert of the saved file into the index.
did_save_reparsed(index, p) ==
  IF p.ext = "kt"
  THEN [q \in DOMAIN index \cup {p} |-> IF q = p THEN Content(p) ELSE index[q]]
  ELSE index
\* The index after did_save: the handler logs and does not touch self.trees.
did_save_index(index, p) == index

\* The requests the clients send: the notifications, a save of src/Foo.kt,
\* hovers of a call target (go of go(3)) and of a keyword, a hover of a file
\* that is not indexed, and get_hover of the member baz of g.baz(n) and of
\* the call target.
Request(op, p, pos) == [op |-> op, path |-> p, pos |-> pos, stage |-> "received", entry |-> None]
Requests ==
  {Request(op, NoPath, NoPos) : op \in {"initialized", "did_open", "shutdown"}}
  \cup {Request("did_save", SrcFoo, NoPos)}
  \cup {Request("hover", SrcBar, [line |-> 12, character |-> 8]),
        Request("hover", SrcBar, [line |-> 0, character |-> 0]),
        Request("hover", SrcBad, [line |-> 0, character |-> 0])}
  \cup {Request("get_hover", SrcBar, [line |-> 8, character |-> 10]),
        Request("get_hover", SrcBar, [line |-> 12, character |-> 8])}

\* The project with and without the two files of stem Foo.
ConcDisks == {{SrcFoo, LibFoo, SrcBar, Readme}, {SrcBar, Readme}}

ConcInit ==
  /\ disk \in ConcDisks
  /\ trees = EmptyIndex
  /\ phase = "uninitialized"
  /\ reply = NoReply
  /\ BuildIdle
  /\ TypesIdle
  /\ CstIdle
  /\ ConcIdle
  /\ ExprIdle

\* Backend::initialize, alone: the client sends nothing before its answer.
Populate ==
  /\ phase = "uninitialized"
  /\ trees' = [p \in KtFiles(disk) |-> Content(p)]
  /\ populated' = trees'
  /\ order' \in Orders(KtFiles(disk))
  /\ phase' = "initialized"
  /\ reply' = Reply("initialize", NoPath, NoPos, 0, Ok(None))
  /\ UNCHANGED <<disk, inflight, buildVars, typeVars, cstVars, exprVars>>

\* A request arrives and its handler is started.
Receive ==
  /\ phase = "initialized"
  /\ Cardinality(inflight) < MaxInFlight
  /\ \E r \in Requests \ inflight :
       /\ r.op = "get_hover" => r.path \in DOMAIN trees
       /\ inflight' = inflight \cup {r}
  /\ UNCHANGED <<serverVars, order, populated, buildVars, typeVars, cstVars, exprVars>>

\* self.trees.get(&path).unwrap().to_owned()
Fetch ==
  /\ phase # "crashed"
  /\ \E r \in inflight :
       /\ r.op \in {"hover", "get_hover"}
       /\ r.stage = "received"
       /\ IF r.path \in DOMAIN trees
          THEN /\ inflight' = (inflight \ {r})
                    \cup {[r EXCEPT !.stage = "fetched", !.entry = Some(trees[r.path])]}
               /\ UNCHANGED <<phase, reply>>
          ELSE /\ inflight' = inflight \ {r}
               /\ phase' = "crashed"
               /\ reply' = Reply(r.op, r.path, r.pos, 0, Panic(UnwrapNone))
  /\ UNCHANGED <<disk, trees, order, populated, buildVars, typeVars, cstVars, exprVars>>

\* Backend::hover on its copy of the entry.
HoverCompute ==
  /\ phase # "crashed"
  /\ \E r \in inflight :
       /\ r.op = "hover"
       /\ r.stage = "fetched"
       /\ LET own == [q \in {r.path} |-> Unwrap(r.entry)]
              out == HoverOutcome(own, r.path, r.pos)
          IN /\ reply' = Reply("hover", r.path, r.pos,
                               get_node(Parse(Unwrap(r.entry)), r.pos), out)
             /\ phase' = IF out.tag = "Panic" THEN "crashed" ELSE phase
       /\ inflight' = inflight \ {r}
  /\ UNCHANGED <<disk, trees, order, populated, buildVars, typeVars, cstVars, exprVars>>

\* Backend::get_hover on the copy, scanning the index for the member's file.
GetHoverScan ==
  /\ phase # "crashed"
  /\ \E r \in inflight :
       /\ r.op = "get_hover"
       /\ r.stage = "fetched"
       /\ reply' = Reply("get_hover", r.path, r.pos,
                         get_node(Parse(Unwrap(r.entry)), r.pos),
                         get_hover_scan(trees, order, 1, r.pos, Parse(Unwrap(r.entry))))
       /\ inflight' = inflight \ {r}
  /\ UNCHANGED <<disk, trees, phase, order, populated, buildVars, typeVars, cstVars, exprVars>>

\* self.client.log_message(..).await of initialized and did_save
LogMessage ==
  /\ phase # "crashed"
  /\ \E r \in inflight :
       /\ r.op \in {"initialized", "did_save"}
       /\ r.stage = "received"
       /\ inflight' = (inflight \ {r}) \cup {[r EXCEPT !.stage = "logged"]}
  /\ UNCHANGED <<serverVars, order, populated, buildVars, typeVars, cstVars, exprVars>>

\* The end of initialized, did_open and did_save: notifications, which
\* have no answer.
Notified ==
  /\ phase # "crashed"
  /\ \E r \in inflight :
       /\ \/ r.op \in {"initialized", "did_save"} /\ r.stage = "logged"
          \/ r.op = "did_open"
       /\ trees' = IF r.op = "did_save" THEN did_save_index(trees, r.path) ELSE trees
       /\ inflight' = inflight \ {r}
  /\ UNCHANGED <<disk, phase, reply, order, populated, buildVars, typeVars, cstVars, exprVars>>

\* Backend::shutdown; the requests in flight go on.
ShutdownServer ==
  /\ phase # "crashed"
  /\ \E r \in inflight :
       /\ r.op = "shutdown"
       /\ phase' = "shutdown"
       /\ reply' = Reply("shutdown", NoPath, NoPos, 0, Ok(None))
       /\ inflight' = inflight \ {r}
  /\ UNCHANGED <<disk, trees, order, populated, buildVars, typeVars, cstVars, exprVars>>

ConcNext ==
  \/ Populate
  \/ Receive
  \/ Fetch
  \/ HoverCompute
  \/ GetHoverScan
  \/ LogMessage
  \/ Notified
  \/ ShutdownServer

SpecConc == ConcInit /\ [][ConcNext]_vars

(***************************************************************************)
(* Statements, expressions and properties: kotlin/statement.rs,            *)
(* kotlin/expression/mod.rs, kotlin/expression.rs, kotlin/property.rs and  *)
(* the builders they call.  A match arm whose builder is not part of this  *)
(* development is left out; no syntax tree below holds a node of such a    *)
(* kind.                                                                   *)
(***************************************************************************)
\* kotlin/expression/mod.rs EXPRESSIONS
EXPRESSIONS ==
  {"postfix_expression", "call_expression", "indexing_expression",
   "navigation_expression", "prefix_expression", "as_expression",
   "spread_expression", "multiplicative_expression", "additive_expression",
   "range_expression", "infix_expression", "elvis_expression",
   "check_expression", "comparison_expression", "equality_expression",
   "conjunction_expression", "disjunction_expression",
   "parenthesized_expression", "simple_identifier", "boolean_literal",
   "integer_literal", "hex_literal", "bin_literal", "character_literal",
   "real_literal", "null", "long_literal", "unsigned_literal",
   "string_literal", "callable_reference", "lambda_literal",
   "anonymous_function", "object_literal", "collection_literal",
   "this_expression", "super_expression", "if_expression", "when_expression",
   "try_expression", "jump_expression"}

end_position(t, n) == "(" \o ToString(t[n].erow) \o ", " \o ToString(t[n].ecol) \o ")"

\* Result::unwrap_or_default on a Vec
unwrap_or_default(r) == IF r.tag = "Ok" THEN r.val ELSE << >>
\* Result::ok
ok(r) == IF r.tag = "Ok" THEN Some(r.val) ELSE None

\* node.child(node.child_count() - k).context(m): child_count() is a usize.
\* When the node has fewer than k children the subtraction panics where
\* overflow checks are compiled in, and elsewhere wraps to an index past
\* every child, for which child() is None.
context_from_end(t, node, k, m) ==
  LET count == Len(children(t, node))
  IN IF k <= count THEN context(child(t, node, count - k), m)
     ELSE IF overflow_checks THEN PanicV("attempt to subtract with overflow")
     ELSE ErrV(m)

\* kotlin/modifier.rs Modifier::new
ModifierVariants ==
  [visibility_modifier |-> "Visibility", class_modifier |-> "Class",
   annotation |-> "Annotation", inheritance_modifier |-> "Inheritance",
   member_modifier |-> "Member"]
modifier_Modifier_new(t, node) ==
  IF t[node].kind \in DOMAIN ModifierVariants
  THEN OkV([variant |-> ModifierVariants[t[node].kind], text |-> t[node].text])
  ELSE ErrV("unknown modifier " \o t[node].kind)

\* for child in node.children(..) { modifiers.push(Modifier::new(&child, content)?) }
PushModifiers(t, node, modifiers) ==
  LET Body(acc, c) == Try(modifier_Modifier_new(t, c), LAMBDA m : OkV(Append(acc, m)))
  IN TryFold(Body, children(t, node), 1, OkV(modifiers))

\* kotlin/types.rs Type::new, without the function_type arm
types_Type_new(t, node) ==
  LET prev == t[node].prev
      kind == t[node].kind
      Mod(acc, c) ==
        CASE t[c].kind = "annotation" ->
               OkV(Append(acc, [variant |-> "Annotation", text |-> t[c].text]))
          [] t[c].kind = "suspend" ->
               OkV(Append(acc, [variant |-> "Suspend", text |-> ""]))
          [] OTHER ->
               ErrV("[Type::Modifier] unhandled modifier " \o t[c].kind \o " '"
                    \o t[c].text \o "' at " \o start_position(t, c))
      modifiers == IF prev # 0 THEN TryFold(Mod, children(t, prev), 1, OkV(<< >>))
                   ELSE OkV(<< >>)
  IN Try(modifiers, LAMBDA mods :
       CASE kind = "user_type" ->
              OkV([variant |-> "NonNullable", modifiers |-> mods, name |-> t[node].text])
         [] kind = "nullable_type" ->
              OkV([variant |-> "Nullable", modifiers |-> mods, name |-> t[node].text])
         [] kind \notin {"function_type", "user_type", "nullable_type"} ->
              ErrV("[Type] unhandled type " \o kind \o " '" \o t[node].text
                   \o "' at " \o start_position(t, node)))

\* kotlin/variable_declaration.rs VariableDeclaration::new
VariableDeclaration_new(t, node) ==
  LET Body(acc, c) ==
        CASE t[c].kind = ":" -> OkV(acc)
          [] t[c].kind = "simple_identifier" ->
               OkV([acc EXCEPT !.identifier = Some(t[c].text)])
          [] t[c].kind \in {"user_type", "nullable_type"} ->
               Try(types_Type_new(t, c),
                   LAMBDA ty : OkV([acc EXCEPT !.data_type = Some(ty)]))
          [] OTHER -> Unhandled("[VariableDeclaration] ", t, c)
  IN Try(TryFold(Body, children(t, node), 1,
                 OkV([identifier |-> None, data_type |-> None])),
         LAMBDA d :
           Try(context(d.identifier, "no identifier found"),
               LAMBDA identifier :
                 OkV([identifier |-> identifier, data_type |-> d.data_type])))

\* kotlin/variable_declaration.rs MultiVariableDeclaration::new
MultiVariableDeclaration_new(t, node) ==
  LET Body(acc, c) ==
        CASE t[c].kind \in {"(", ",", ")"} -> OkV(acc)
          [] t[c].kind = "variable_declaration" ->
               Try(VariableDeclaration_new(t, c), LAMBDA v : OkV(Append(acc, v)))
          [] OTHER -> Unhandled("[MultiVariableDeclaration] ", t, c)
  IN Try(TryFold(Body, children(t, node), 1, OkV(<< >>)),
         LAMBDA vars_ : OkV([variable_declarations |-> vars_]))

\* The modifiers of an accessor: those of its first child, if it has one.
AccessorModifiers(t, node) ==
  IF IsSome(child(t, node, 0))
  THEN Try(PushModifiers(t, Unwrap(child(t, node, 0)), << >>),
           LAMBDA modifiers : OkV(Some(modifiers)))
  ELSE OkV(None)

\* kotlin/getter.rs Getter::new, without the function_body arm
Getter_new(t, node) ==
  LET Body(acc, c) ==
        CASE t[c].kind \in {"get", "(", ")", "modifiers"} -> OkV(acc)
          [] t[c].kind \notin {"get", "(", ")", "modifiers", "function_body"} ->
               Unhandled("[Getter] ", t, c)
  IN Try(AccessorModifiers(t, node), LAMBDA modifiers :
       Try(TryFold(Body, children(t, node), 1, OkV(None)),
           LAMBDA function_body :
             OkV([modifiers |-> modifiers, function_body |-> function_body])))

\* kotlin/getter.rs Setter::new, without the function_body and
\* parameter_with_optional_type arms
Setter_new(t, node) ==
  LET Body(acc, c) ==
        CASE t[c].kind \in {"set", "(", ")", "modifiers"} -> OkV(acc)
          [] t[c].kind \notin {"set", "(", ")", "modifiers", "function_body",
                               "parameter_with_optional_type"} ->
               Unhandled("[Setter] ", t, c)
  IN Try(AccessorModifiers(t, node), LAMBDA modifiers :
       Try(TryFold(Body, children(t, node), 1, OkV(None)),
           LAMBDA function_body :
             OkV([modifiers |-> modifiers, parameter |-> None,
                  function_body |-> function_body])))


\* The builders that call one another take the table of their calls:
\* call["Expression::new", n] is Expression::new(&n, content).

\* The two operands of a binary expression, children 0 and 2.
operands(call, t, node, who) ==
  LET Body(acc, i) ==
        Try(context(child(t, node, i),
                    who \o " no expression found at " \o start_position(t, node)),
            LAMBDA c : Try(call["Expression::new", c], LAMBDA e : OkV(Append(acc, e))))
  IN TryFold(Body, <<0, 2>>, 1, OkV(<< >>))

\* kotlin/expression/mod.rs disjunction_expression
disjunction_expression(call, t, node) ==
  Try(operands(call, t, node, "[Expression::Disjunction]"), LAMBDA o :
    OkV([variant |-> "Disjunction", left |-> o[1], right |-> o[2]]))

\* kotlin/expression/mod.rs conjunction_expression
conjunction_expression(call, t, node) ==
  Try(operands(call, t, node, "[Expression::Conjunction]"), LAMBDA o :
    OkV([variant |-> "Conjunction", left |-> o[1], right |-> o[2]]))

\* kotlin/expression/mod.rs additive_expression: it builds a Conjunction.
additive_expression(call, t, node) ==
  Try(operands(call, t, node, "[Expression::Additive]"), LAMBDA o :
    OkV([variant |-> "Conjunction", left |-> o[1], right |-> o[2]]))

\* kotlin/expression/mod.rs if_expression
if_expression(call, t, node) ==
  Try(context(child(t, node, 2),
              "[Expression::If] no expression found at " \o start_position(t, node)),
      LAMBDA c :
        Try(call["Expression::new", c], LAMBDA expression :
          Try(context(child(t, node, 4),
                      "[Expression::If] no control structure body found at "
                        \o start_position(t, node)),
              LAMBDA b :
                Try(call["ControlStructureBody::new", b], LAMBDA body :
                  OkV([variant |-> "If", expression |-> expression,
                       body |-> body])))))

\* kotlin/expression/mod.rs WhenSubject::new
WhenSubject_new(call, t, node) ==
  Try(context_from_end(t, node, 2, "[WhenSubject] no child at " \o start_position(t, node)),
      LAMBDA c : Try(call["Expression::new", c], LAMBDA e : OkV([expression |-> e])))

\* kotlin/expression/mod.rs WhenCondition::new
WhenCondition_new(call, t, node) ==
  LET second(c) == context(child(t, c, 1),
                           "[WhenCondition] no child 1 at " \o start_position(t, node))
  IN Try(context(child(t, node, 0),
                 "[WhenCondition] no child 0 at " \o start_position(t, node)),
         LAMBDA c :
           IF t[c].kind = "type_test"
           THEN Try(second(c), LAMBDA n :
                  Try(types_Type_new(t, n), LAMBDA ty :
                    OkV([variant |-> "TypeTest", val |-> ty])))
           ELSE Try(IF t[c].kind = "range_test" THEN second(c) ELSE OkV(c),
                    LAMBDA n :
                      Try(call["Expression::new", n], LAMBDA e :
                        OkV([variant |-> IF t[c].kind = "range_test"
                                         THEN "RangeTest" ELSE "Expression",
                             val |-> e]))))

\* kotlin/expression/mod.rs WhenEntry::new
WhenEntry_new(call, t, node) ==
  LET Body(acc, c) ==
        CASE t[c].kind = "when_condition" ->
               Try(WhenCondition_new(call, t, c),
                   LAMBDA condition : OkV([acc EXCEPT !.condition = Some(condition)]))
          [] t[c].kind = "control_structure_body" ->
               Try(call["ControlStructureBody::new", c],
                   LAMBDA body : OkV([acc EXCEPT !.body = Some(body)]))
          [] OTHER -> OkV(acc)
  IN Try(TryFold(Body, children(t, node), 1, OkV([condition |-> None, body |-> None])),
         LAMBDA e :
           Try(context(e.body, "[WhenEntry] no body at " \o start_position(t, node)),
               LAMBDA body : OkV([condition |-> e.condition, body |-> body])))

\* kotlin/expression/mod.rs when_expression
when_expression(call, t, node) ==
  LET Body(acc, c) ==
        CASE t[c].kind = "when_subject" ->
               Try(WhenSubject_new(call, t, c),
                   LAMBDA subject : OkV([acc EXCEPT !.subject = Some(subject)]))
          [] t[c].kind = "when_entry" ->
               Try(WhenEntry_new(call, t, c),
                   LAMBDA entry : OkV([acc EXCEPT !.entries = Append(@, entry)]))
          [] OTHER -> OkV(acc)
  IN Try(TryFold(Body, children(t, node), 1, OkV([subject |-> None, entries |-> << >>])),
         LAMBDA w :
           OkV([variant |-> "When", subject |-> w.subject, entries |-> w.entries]))

\* The directly_assignable_expression and parenthesized_expression arms of
\* kotlin/expression/mod.rs Expression::new: the expression of child i.
Wrapped(call, t, node, i, variant) ==
  Try(context(child(t, node, i),
              "[Expression::" \o variant \o "] no child at " \o start_position(t, node)),
      LAMBDA c :
        Try(call["Expression::new", c],
            LAMBDA e : OkV([variant |-> variant, expression |-> e])))

\* kotlin/types.rs TYPES
TYPES ==
  {"parenthesized_type", "nullable_type", "user_type", "dynamic", "function_type",
   "non_nullable_type"}

\* kotlin/function.rs Parameter::new
Parameter_new(t, node) ==
  LET Body(acc, c) ==
        LET named == IF t[c].kind = "simple_identifier"
                     THEN [acc EXCEPT !.name = Some(t[c].text)] ELSE acc
        IN IF t[c].kind \in TYPES
           THEN Try(types_Type_new(t, c), LAMBDA ty :
                  OkV([named EXCEPT !.type_identifier = Some(ty)]))
           ELSE OkV(named)
      at == start_position(t, node) \o " - " \o end_position(t, node)
  IN Try(TryFold(Body, children(t, node), 1,
                 OkV([name |-> None, type_identifier |-> None])),
         LAMBDA end :
           Try(context(end.name, "[Parameter] no identifier found at " \o at), LAMBDA name :
             Try(context(end.type_identifier, "[Parameter] no type found at " \o at),
                 LAMBDA type_identifier :
                   OkV([name |-> name, type_identifier |-> type_identifier]))))

\* kotlin/function.rs FunctionBody::new: the loop returns at the first = or {
function_FunctionBody_new(call, t, node) ==
  LET kids == children(t, node)
      marks == {i \in 1..Len(kids) : t[kids[i]].kind \in {"=", "{"}}
      at == start_position(t, node) \o " - " \o end_position(t, node)
  IN IF marks = {} THEN ErrV("TODO")
     ELSE LET c == kids[Smallest(marks)]
              next_sibling == IF t[c].next = 0 THEN None ELSE Some(t[c].next)
          IN IF t[c].kind = "="
             THEN Try(context(next_sibling, "[FunctionBody] no expression at " \o at),
                      LAMBDA n :
                        Try(call["Expression::new", n], LAMBDA e :
                          OkV([variant |-> "Expression", val |-> e])))
             ELSE Try(context(next_sibling, "[FunctionBody] no statements at " \o at),
                      LAMBDA n :
                        Try(call["get_statements", n], LAMBDA s :
                          OkV([variant |-> "Block", val |-> s])))

\* kotlin/function.rs Function::new
function_Function_new(call, t, node) ==
  LET Parameters(acc, c) ==
        IF t[c].kind # "parameter" THEN OkV(acc)
        ELSE Try(Parameter_new(t, c), LAMBDA p : OkV(Append(acc, p)))
      Body(acc, c) ==
        CASE t[c].kind = "modifiers" ->
               Try(MemberModifiers(t, c, acc.modifiers,
                     {"annotation", "member_modifier", "visibility_modifier",
                      "function_modifier", "inheritance_modifier"}),
                   LAMBDA m : OkV([acc EXCEPT !.modifiers = m]))
          [] t[c].kind = "simple_identifier" ->
               OkV([acc EXCEPT !.name = Some(t[c].text)])
          [] t[c].kind = "function_value_parameters" ->
               Try(TryFold(Parameters, children(t, c), 1, OkV(acc.parameters)),
                   LAMBDA p : OkV([acc EXCEPT !.parameters = p]))
          [] t[c].kind \in {"user_type", "nullable_type"} ->
               OkV([acc EXCEPT !.return_type = Some(t[c].text)])
          [] t[c].kind = "function_body" ->
               Try(function_FunctionBody_new(call, t, c),
                   LAMBDA b : OkV([acc EXCEPT !.body = Some(b)]))
          [] OTHER -> OkV(acc)
  IN Try(TryFold(Body, children(t, node), 1,
                 OkV([modifiers |-> << >>, name |-> None, parameters |-> << >>,
                      return_type |-> None, body |-> None])),
         LAMBDA end :
           Try(context(end.name, "no name found for function"),
               LAMBDA name : OkV([end EXCEPT !.name = name])))

\* kotlin/delegation.rs Delegation::new, without the constructor_invocation
\* arm
delegation_Delegation_new(t, node) ==
  LET kids == children(t, node)
      told == {i \in 1..Len(kids) : t[kids[i]].kind \notin {"line_comment", "multi_line_comment"}}
  IN IF told = {}
     THEN ErrV("[Delegation] no child at " \o start_position(t, node) \o " - "
               \o end_position(t, node))
     ELSE LET c == kids[Smallest(told)]
          IN CASE t[c].kind = "user_type" ->
                    Try(types_Type_new(t, c), LAMBDA ty : OkV([variant |-> "Type", val |-> ty]))
               [] t[c].kind # "constructor_invocation" -> Unhandled("[Delegation] ", t, c)

\* kotlin/class.rs Class::new, without the primary_constructor,
\* enum_class_body and type_parameters arms
Class_new(call, t, node) ==
  LET Body(acc, c) ==
        CASE t[c].kind \in {":", ","} -> OkV(acc)
          [] t[c].kind = "modifiers" ->
               Try(PushModifiers(t, c, acc.modifiers), LAMBDA m :
                 OkV([acc EXCEPT !.modifiers = m]))
          [] t[c].kind = "class" -> OkV([acc EXCEPT !.class_type = Some("Class")])
          [] t[c].kind = "interface" -> OkV([acc EXCEPT !.class_type = Some("Interface")])
          [] t[c].kind = "enum" -> OkV([acc EXCEPT !.class_type = Some("Enum")])
          [] t[c].kind = "type_identifier" -> OkV([acc EXCEPT !.name = Some(t[c].text)])
          [] t[c].kind = "delegation_specifier" ->
               Try(delegation_Delegation_new(t, c), LAMBDA d :
                 OkV([acc EXCEPT !.delegations = Append(@, d)]))
          [] t[c].kind = "class_body" ->
               Try(call["ClassBody::new_class_body", c], LAMBDA b :
                 OkV([acc EXCEPT !.body = Some(b)]))
          [] t[c].kind \notin {":", ",", "modifiers", "class", "interface", "enum",
                               "type_identifier", "primary_constructor",
                               "delegation_specifier", "class_body", "enum_class_body",
                               "type_parameters"} ->
               ErrV("[Class]: unhandled child " \o t[c].kind \o " '" \o t[c].text
                    \o "' at " \o start_position(t, c))
  IN Try(TryFold(Body, children(t, node), 1,
                 OkV([class_type |-> None, name |-> None, modifiers |-> << >>,
                      delegations |-> << >>, body |-> None])),
         LAMBDA end :
           Try(context(end.class_type, "[Class] no class type found"), LAMBDA class_type :
             Try(context(end.name, "[Class] no class name found"), LAMBDA name :
               OkV([class_type |-> class_type, name |-> name,
                    modifiers |-> end.modifiers, type_parameters |-> << >>,
                    delegations |-> end.delegations, constructor |-> None,
                    body |-> end.body]))))

\* kotlin/class.rs ClassBody::new_class_body, without the object_declaration,
\* companion_object, anonymous_initializer and secondary_constructor arms
class_rs_new_class_body(call, t, node) ==
  LET Body(acc, c) ==
        CASE t[c].kind \in {"{", "}", "line_comment", "multiline_comment", "getter",
                            "setter"} -> OkV(acc)
          [] t[c].kind = "property_declaration" ->
               Try(call["Property::new", c], LAMBDA p :
                 OkV([acc EXCEPT !.properties = Append(@, p)]))
          [] t[c].kind = "function_declaration" ->
               Try(call["Function::new", c], LAMBDA f :
                 OkV([acc EXCEPT !.functions = Append(@, f)]))
          [] t[c].kind = "class_declaration" ->
               Try(call["Class::new", c], LAMBDA class :
                 OkV([acc EXCEPT !.classes = Append(@, class)]))
          [] t[c].kind \notin {"{", "}", "line_comment", "multiline_comment", "getter",
                               "setter", "property_declaration", "function_declaration",
                               "object_declaration", "class_declaration",
                               "companion_object", "anonymous_initializer",
                               "secondary_constructor"} ->
               Unhandled("[ClassBody::Class] ", t, c)
  IN TryFold(Body, children(t, node), 1,
             OkV([variant |-> "Class", properties |-> << >>, functions |-> << >>,
                  objects |-> << >>, classes |-> << >>, companion_objects |-> << >>,
                  anonymous_initializers |-> << >>, secondary_constructors |-> << >>]))

\* kotlin/literal.rs get_parameters
get_parameters(t, node) ==
  LET Body(acc, c) ==
        CASE t[c].kind = "," -> OkV(acc)
          [] t[c].kind = "variable_declaration" ->
               Try(VariableDeclaration_new(t, c), LAMBDA v :
                 OkV(Append(acc, [variant |-> "VariableDeclaration", val |-> v])))
          [] OTHER -> Unhandled("[get_parameters] ", t, c)
  IN TryFold(Body, children(t, node), 1, OkV(<< >>))

\* The variants of Literal that hold the text of the node.
LiteralVariants ==
  [boolean_literal |-> "Boolean", string_literal |-> "String",
   integer_literal |-> "Integer", character_literal |-> "Character"]

\* kotlin/literal.rs Literal::new
Literal_new(call, t, node) ==
  LET kind == t[node].kind
      kids == children(t, node)
      bodies == {i \in 1..Len(kids) : t[kids[i]].kind = "class_body"}
      Before(acc, c) ==
        CASE t[c].kind \in {"object", ":"} -> OkV(acc)
          [] t[c].kind = "delegation_specifier" ->
               Try(delegation_Delegation_new(t, c), LAMBDA d : OkV(Append(acc, d)))
          [] OTHER ->
               ErrV("[Literal] unhandled node " \o t[c].kind \o " '" \o t[c].text
                    \o "' at " \o start_position(t, c))
      Lambda(acc, c) ==
        CASE t[c].kind \in {"{", "->", "}"} -> OkV(acc)
          [] t[c].kind = "statements" ->
               Try(call["get_statements", c], LAMBDA statements :
                 OkV([acc EXCEPT !.statements = Some(statements)]))
          [] t[c].kind = "lambda_parameters" ->
               Try(get_parameters(t, c), LAMBDA parameters :
                 OkV([acc EXCEPT !.parameters = Some(parameters)]))
          [] OTHER -> Unhandled("[LambdaLiteral] ", t, c)
  IN CASE kind \in DOMAIN LiteralVariants ->
            OkV([variant |-> LiteralVariants[kind], text |-> t[node].text])
       [] kind = "object_literal" ->
            \* the loop returns at the first class_body
            Try(TryFold(Before,
                        SubSeq(kids, 1, IF bodies = {} THEN Len(kids)
                                        ELSE Smallest(bodies) - 1),
                        1, OkV(<< >>)),
                LAMBDA delegations :
                  IF bodies = {}
                  THEN ErrV("[Literal] no class_body at " \o start_position(t, node))
                  ELSE Try(call["ClassBody::new_class_body", kids[Smallest(bodies)]],
                           LAMBDA body :
                             OkV([variant |-> "Object", body |-> body,
                                  delegations |-> delegations])))
       [] kind = "lambda_literal" ->
            TryFold(Lambda, kids, 1,
                    OkV([variant |-> "Lambda", statements |-> None, parameters |-> None]))
       [] kind = "null" -> OkV([variant |-> "Null"])
       [] OTHER ->
            ErrV("[Literal] unhandled node " \o kind \o " '" \o t[node].text \o "' at "
                 \o start_position(t, node))

\* kotlin/expression/try.rs CatchBlock::new
CatchBlock_new(call, t, node) ==
  LET no_child == "[CatchBlock] no child at " \o start_position(t, node)
  IN Try(context_from_end(t, node, 2, no_child), LAMBDA statements_node :
       IF t[statements_node].kind = "statements"
       THEN Try(context_from_end(t, node, 7, no_child), LAMBDA id :
              Try(context_from_end(t, node, 5, no_child), LAMBDA ty :
                Try(types_Type_new(t, ty), LAMBDA typ :
                  Try(call["get_statements", statements_node], LAMBDA block :
                    OkV([identifier |-> t[id].text, typ |-> typ, block |-> block])))))
       ELSE Try(context_from_end(t, node, 6, no_child), LAMBDA id :
              Try(context_from_end(t, node, 4, no_child), LAMBDA ty :
                Try(types_Type_new(t, ty), LAMBDA typ :
                  OkV([identifier |-> t[id].text, typ |-> typ, block |-> << >>])))))

\* kotlin/expression/try.rs FinallyBlock::new: the statements of child 0
FinallyBlock_new(call, t, node) ==
  Try(context(child(t, node, 0), "[FinallyBlock] no child at " \o start_position(t, node)),
      LAMBDA c :
        Try(call["get_statements", c], LAMBDA block : OkV([block |-> block])))

\* kotlin/expression/try.rs expression
try_expression(call, t, node) ==
  LET Body(acc, c) ==
        CASE t[c].kind \in {"try", "{", "}", "statements"} -> OkV(acc)
          [] t[c].kind = "catch_block" ->
               Try(CatchBlock_new(call, t, c), LAMBDA b :
                 OkV([acc EXCEPT !.catch_blocks = Append(@, b)]))
          [] t[c].kind = "finally_block" ->
               Try(FinallyBlock_new(call, t, c), LAMBDA b :
                 OkV([acc EXCEPT !.finally_block = Some(b)]))
          [] OTHER -> Unhandled("[Expression::Try] ", t, c)
  IN Try(context(child(t, node, 2),
                 "[Expression::Try] no child at " \o start_position(t, node)),
         LAMBDA c :
           Try(call["get_statements", c], LAMBDA block :
             TryFold(Body, children(t, node), 1,
                     OkV([variant |-> "Try", block |-> block, catch_blocks |-> << >>,
                          finally_block |-> None]))))

\* The node kinds kotlin/expression/mod.rs Expression::new has an arm for.
ExpressionArms ==
  {"call_expression", "navigation_expression", "if_expression",
   "disjunction_expression", "conjunction_expression", "additive_expression",
   "equality_expression", "multiplicative_expression", "comparison_expression",
   "prefix_expression", "postfix_expression", "simple_identifier",
   "try_expression", "infix_expression", "as_expression", "elvis_expression",
   "range_expression", "check_expression", "super_expression",
   "callable_reference", "boolean_literal", "string_literal", "integer_literal",
   "object_literal", "character_literal", "lambda_literal", "long_literal",
   "real_literal", "hex_literal", "null", "when_expression", "user_type",
   "jump_expression", "directly_assignable_expression",
   "parenthesized_expression", "indexing_expression", "this_expression"}

\* kotlin/expression/mod.rs Expression::new
Expression_new(call, t, node) ==
  LET kind == t[node].kind
  IN CASE kind = "if_expression" -> if_expression(call, t, node)
       [] kind = "disjunction_expression" -> disjunction_expression(call, t, node)
       [] kind = "conjunction_expression" -> conjunction_expression(call, t, node)
       [] kind = "additive_expression" -> additive_expression(call, t, node)
       [] kind = "simple_identifier" ->
            OkV([variant |-> "Identifier", identifier |-> t[node].text])
       [] kind = "super_expression" -> OkV([variant |-> "Super"])
       [] kind = "when_expression" -> when_expression(call, t, node)
       [] kind = "try_expression" -> try_expression(call, t, node)
       [] kind \in {"boolean_literal", "string_literal", "integer_literal",
                    "object_literal", "character_literal", "lambda_literal",
                    "long_literal", "real_literal", "hex_literal", "null"} ->
            Try(Literal_new(call, t, node), LAMBDA l :
              OkV([variant |-> "Literal", val |-> l]))
       [] kind = "user_type" ->
            Try(types_Type_new(t, node), LAMBDA ty : OkV([variant |-> "Type", val |-> ty]))
       [] kind \in {"directly_assignable_expression", "parenthesized_expression"} ->
            Wrapped(call, t, node, IF kind = "parenthesized_expression" THEN 1 ELSE 0,
                    IF kind = "parenthesized_expression" THEN "Parenthesized"
                    ELSE "DirectlyAssignable")
       [] kind \notin ExpressionArms -> Unhandled("[Expression] ", t, node)

\* kotlin/expression/mod.rs ControlStructureBody::new
ControlStructureBody_new(call, t, node) ==
  LET no_child == "[ControlStructureBody] no child at " \o start_position(t, node)
  IN Try(context(child(t, node, 0), no_child), LAMBDA c :
       Try(IF t[c].kind = "{" THEN context(child(t, node, 1), no_child) ELSE OkV(c),
           LAMBDA block :
             Unwind(call["get_statements", block], LAMBDA r :
               OkV([statements |-> unwrap_or_default(r)]))))

\* kotlin/statement.rs while_statement
while_statement(call, t, node) ==
  LET no_child == "[Statement::While] no child at " \o start_position(t, node)
  IN Try(context_from_end(t, node, 1, no_child), LAMBDA last :
       Try(context(child(t, node, 2), no_child), LAMBDA c :
         Try(call["Expression::new", c], LAMBDA e :
           Unwind(IF t[last].kind = ";" THEN ErrV("")
                  ELSE call["ControlStructureBody::new", last],
                  LAMBDA r : OkV([variant |-> "While", expression |-> e,
                                  body |-> IF t[last].kind = ";" THEN None ELSE ok(r)])))))

\* kotlin/statement.rs for_statement
for_statement(call, t, node) ==
  LET no_child == "[Statement::For] no child at " \o start_position(t, node)
      ForParameter(c) ==
        CASE t[c].kind = "variable_declaration" ->
               Try(VariableDeclaration_new(t, c),
                   LAMBDA v : OkV([variant |-> "VariableDeclaration", val |-> v]))
          [] t[c].kind = "multi_variable_declaration" ->
               Try(MultiVariableDeclaration_new(t, c),
                   LAMBDA v : OkV([variant |-> "MultiVariableDeclaration", val |-> v]))
          [] OTHER -> Unhandled("[Statement::For] ", t, c)
  IN Try(context_from_end(t, node, 1, no_child), LAMBDA last :
       Try(context_from_end(t, node, 5, no_child), LAMBDA c :
         Try(ForParameter(c), LAMBDA parameter :
           Try(context_from_end(t, node, 3, no_child), LAMBDA x :
             Try(call["Expression::new", x], LAMBDA e :
               Unwind(IF t[last].kind = ")" THEN ErrV("")
                      ELSE call["ControlStructureBody::new", last],
                      LAMBDA r : OkV([variant |-> "For", expression |-> e,
                                      parameter |-> parameter,
                                      body |-> IF t[last].kind = ")" THEN None
                                               ELSE ok(r)])))))))

\* kotlin/statement.rs get_statements, without the assignment arm
get_statements(call, t, node) ==
  LET Body(acc, c) ==
        CASE t[c].kind = "line_comment" -> OkV(acc)
          [] t[c].kind = "property_declaration" ->
               Try(call["Property::new", c], LAMBDA p :
                 OkV(Append(acc, [variant |-> "PropertyDeclaration", val |-> p])))
          [] t[c].kind = "function_declaration" ->
               Try(call["Function::new", c], LAMBDA f :
                 OkV(Append(acc, [variant |-> "Function", val |-> f])))
          [] t[c].kind = "while_statement" ->
               Try(while_statement(call, t, c), LAMBDA s : OkV(Append(acc, s)))
          [] t[c].kind = "for_statement" ->
               Try(for_statement(call, t, c), LAMBDA s : OkV(Append(acc, s)))
          [] t[c].kind \in EXPRESSIONS ->
               Try(call["Expression::new", c], LAMBDA e :
                 OkV(Append(acc, [variant |-> "Expression", val |-> e])))
          [] t[c].kind \notin EXPRESSIONS
                                \cup {"line_comment", "property_declaration",
                                      "function_declaration", "assignment",
                                      "while_statement", "for_statement"} ->
               Unhandled("[get_statementes] ", t, c)
  IN TryFold(Body, children(t, node), 1, OkV(<< >>))

\* kotlin/property.rs PropertyDelegate::new
PropertyDelegate_new(call, t, node) ==
  LET found == {i \in 1..Len(children(t, node)) :
                  t[children(t, node)[i]].kind \in EXPRESSIONS}
  IN IF found # {}
     THEN Try(call["Expression::new", children(t, node)[Smallest(found)]],
              LAMBDA e : OkV([expression |-> e]))
     ELSE ErrV("[PropertyDelegate] no expression at " \o start_position(t, node)
               \o " - " \o end_position(t, node))

\* kotlin/property.rs Property::new
property_Property_new(call, t, node) ==
  LET Body(acc, c) ==
        CASE t[c].kind \in {".", "="} -> OkV(acc)
          [] t[c].kind = "modifiers" ->
               Try(PushModifiers(t, c, acc.modifiers),
                   LAMBDA modifiers : OkV([acc EXCEPT !.modifiers = modifiers]))
          [] t[c].kind = "var" -> OkV([acc EXCEPT !.mutability = Some("Var")])
          [] t[c].kind = "val" -> OkV([acc EXCEPT !.mutability = Some("Val")])
          [] t[c].kind \in {"user_type", "nullable_type"} ->
               Try(types_Type_new(t, c),
                   LAMBDA ty : OkV([acc EXCEPT !.extension_type = Some(ty)]))
          [] t[c].kind = "variable_declaration" ->
               Try(VariableDeclaration_new(t, c), LAMBDA v :
                 OkV([acc EXCEPT !.variable_declaration =
                                    Some([variant |-> "Single", val |-> v])]))
          [] t[c].kind = "multi_variable_declaration" ->
               Try(MultiVariableDeclaration_new(t, c), LAMBDA v :
                 OkV([acc EXCEPT !.variable_declaration =
                                    Some([variant |-> "Multi", val |-> v])]))
          [] t[c].kind = "property_delegate" ->
               Try(PropertyDelegate_new(call, t, c),
                   LAMBDA d : OkV([acc EXCEPT !.delegate = Some(d)]))
          [] t[c].kind = "getter" ->
               Try(Getter_new(t, c), LAMBDA g : OkV([acc EXCEPT !.getter = Some(g)]))
          [] t[c].kind = "setter" ->
               Try(Setter_new(t, c), LAMBDA g : OkV([acc EXCEPT !.setter = Some(g)]))
          [] t[c].kind \in EXPRESSIONS ->
               Try(call["Expression::new", c],
                   LAMBDA e : OkV([acc EXCEPT !.expression = Some(e)]))
          [] OTHER -> Unhandled("[Property] ", t, c)
      \* if let Some(next) = node.next_sibling() { ... }
      Outside(acc, next) ==
        CASE t[next].kind = "getter" ->
               Try(Getter_new(t, next), LAMBDA g : OkV([acc EXCEPT !.getter = Some(g)]))
          [] t[next].kind = "setter" ->
               Try(Setter_new(t, next), LAMBDA g : OkV([acc EXCEPT !.setter = Some(g)]))
          [] OTHER -> OkV(acc)
      fresh == [modifiers |-> << >>, variable_declaration |-> None,
                mutability |-> None, extension_type |-> None, expression |-> None,
                getter |-> None, setter |-> None, delegate |-> None]
  IN Try(TryFold(Body, children(t, node), 1, OkV(fresh)), LAMBDA inside :
       Try(IF t[node].next # 0 THEN Outside(inside, t[node].next) ELSE OkV(inside),
           LAMBDA p :
             Try(context(p.variable_declaration,
                         "[Property] no variable declaration found"),
                 LAMBDA variable_declaration :
                   Try(context(p.mutability, "[Property] no mutability modifier found"),
                       LAMBDA mutability :
                         OkV([modifiers |-> p.modifiers,
                              variable_declaration |-> variable_declaration,
                              extension_type |-> p.extension_type,
                              expression |-> p.expression,
                              mutability |-> mutability,
                              getter |-> p.getter, setter |-> p.setter,
                              delegate |-> p.delegate])))))

\* The builders that call one another, on every node of t.
Builders ==
  {"Expression::new", "ControlStructureBody::new", "get_statements", "Property::new",
   "Class::new", "ClassBody::new_class_body", "Function::new"}
Calls(t) ==
  LET call[q \in Builders \X (1..Len(t))] ==
        CASE q[1] = "Expression::new" -> Expression_new(call, t, q[2])
          [] q[1] = "ControlStructureBody::new" -> ControlStructureBody_new(call, t, q[2])
          [] q[1] = "get_statements" -> get_statements(call, t, q[2])
          [] q[1] = "Property::new" -> property_Property_new(call, t, q[2])
          [] q[1] = "Class::new" -> Class_new(call, t, q[2])
          [] q[1] = "Function::new" -> function_Function_new(call, t, q[2])
          [] q[1] = "ClassBody::new_class_body" -> class_rs_new_class_body(call, t, q[2])
  IN call

\* kotlin/class.rs get_classes: one turn of the loop
class_rs_GetClassesStep(t, s) ==
  LET n == s.cur
  IN IF t[n].kind = "class_declaration"
     THEN Collect(t, n, Try(Calls(t)["Class::new", n],
                            LAMBDA class : OkV(Append(s.ret.val, class))))
     ELSE Collect(t, n, s.ret)

\* kotlin/class.rs get_classes
class_rs_get_classes(t) ==
  LET Body(s) == class_rs_GetClassesStep(t, s)
  IN Loop(Body, Len(t), [cur |-> 1, ret |-> OkV(<< >>), done |-> FALSE]).ret

RECURSIVE expression_rs_Expression_new(_, _)

\* The loop of kotlin/expression.rs disjunction_expression and
\* equality_expression: the first operand found is the left one, any later
\* one the right one.
expression_rs_operands(t, node, skipped, taken, who) ==
  LET Body(acc, c) ==
        CASE t[c].kind \in skipped -> OkV(acc)
          [] t[c].kind \in taken ->
               Try(expression_rs_Expression_new(t, c), LAMBDA e :
                 IF acc.left = None THEN OkV([acc EXCEPT !.left = Some(e)])
                 ELSE OkV([acc EXCEPT !.right = Some(e)]))
          [] OTHER -> Unhandled(who \o " ", t, c)
  IN Try(TryFold(Body, children(t, node), 1, OkV([left |-> None, right |-> None])),
         LAMBDA o :
           Try(context(o.left, who \o " no left eexpression found"), LAMBDA left :
             Try(context(o.right, who \o " no right eexpression found"), LAMBDA right :
               OkV([left |-> left, right |-> right]))))

\* kotlin/expression.rs disjunction_expression
expression_rs_disjunction_expression(t, node) ==
  Try(expression_rs_operands(t, node, {"||"},
                             {"simple_identifier", "equality_expression"},
                             "[Expression::Disjunction]"),
      LAMBDA o : OkV([variant |-> "Disjunction", left |-> o.left, right |-> o.right]))

\* kotlin/expression.rs equality_expression
expression_rs_equality_expression(t, node) ==
  Try(expression_rs_operands(t, node, {"==", "!="},
                             {"simple_identifier", "null", "navigation_expression"},
                             "[Expression::Equality]"),
      LAMBDA o : OkV([variant |-> "Equality", left |-> o.left, right |-> o.right]))

\* kotlin/expression.rs identifier_expression
identifier_expression(t, node) ==
  IF t[node].kind # "simple_identifier"
  THEN ErrV("[Expression::Identifier]  invalid node " \o t[node].kind \o " '"
            \o t[node].text \o "' at " \o start_position(t, node))
  ELSE OkV([variant |-> "Identifier", identifier |-> t[node].text])

\* The node kinds kotlin/expression.rs Expression::new has an arm for.
expression_rs_ExpressionArms ==
  {"call_expression", "navigation_expression", "if_expression",
   "disjunction_expression", "equality_expression", "simple_identifier",
   "infix_expression", "as_expression", "elvis_expression", "check_expression",
   "boolean_literal", "string_literal", "integer_literal", "null",
   "when_expression", "user_type"}

\* kotlin/expression.rs Expression::new
expression_rs_Expression_new(t, node) ==
  LET kind == t[node].kind
  IN CASE kind = "disjunction_expression" -> expression_rs_disjunction_expression(t, node)
       [] kind = "equality_expression" -> expression_rs_equality_expression(t, node)
       [] kind = "simple_identifier" -> identifier_expression(t, node)
       \* literal_expression
       [] kind \in {"boolean_literal", "string_literal", "integer_literal", "null"} ->
            Try(Literal_new(Calls(t), t, node), LAMBDA l :
              OkV([variant |-> "Literal", val |-> l]))
       [] kind = "user_type" ->
            Try(types_Type_new(t, node), LAMBDA ty : OkV([variant |-> "Type", val |-> ty]))
       [] kind \notin expression_rs_ExpressionArms -> Unhandled("[Expression] ", t, node)

(***************************************************************************)
(* The syntax trees of single statements: expressions of || and && over    *)
(* a, b and 0b1, control structures around a small block, and properties   *)
(* with accessors.                                                         *)
(***************************************************************************)
MaxOps == 2

Shift(part, d) == [i \in 1..Len(part) |-> [part[i] EXCEPT !.depth = @ + d]]
\* A node of this kind over the part.
Nest(kind, part) == <<Inner(0, kind)>> \o Shift(part, 1)
Leaf(kind, text) == <<Word(0, kind, text)>>
Tok(kind) == <<Token(0, kind)>>

IdentifierA == Leaf("simple_identifier", "a")
IdentifierB == Leaf("simple_identifier", "b")
\* bin_literal is in EXPRESSIONS; Expression::new has no arm for it.
BinLiteral == Leaf("bin_literal", "0b1")
Atoms == {IdentifierA, IdentifierB, BinLiteral}

\* l && r: && binds to the left, its right operand is an atom.
RECURSIVE Conjunctions(_)
Conjunctions(k) ==
  IF k = 0 THEN Atoms
  ELSE {Nest("conjunction_expression", l \o Tok("&&") \o r) :
          l \in Conjunctions(k - 1), r \in Atoms}

\* l || r with k operators in all: || binds to the left and weaker than &&.
RECURSIVE Disjunctions(_)
Disjunctions(k) ==
  Conjunctions(k)
    \cup UNION {{Nest("disjunction_expression", l \o Tok("||") \o r) :
                   l \in Disjunctions(i), r \in Conjunctions(k - 1 - i)} :
                i \in 0..(k - 1)}

\* The expressions of up to so many operators.
ExpressionParts(ops) == UNION {Disjunctions(k) : k \in 0..ops}

\* { statement } or { }
Block(statement) ==
  Nest("control_structure_body",
       Tok("{") \o (IF statement = << >> THEN << >> ELSE Nest("statements", statement))
         \o Tok("}"))

\* do { } while ( a ): get_statements has no arm for it.
DoWhile ==
  Nest("do_while_statement",
       Tok("do") \o Block(<< >>) \o Tok("while") \o Tok("(") \o IdentifierA \o Tok(")"))

Conditions == {IdentifierA, BinLiteral}
Inners == {<< >>, IdentifierA, BinLiteral, DoWhile}

If(c, s) == Nest("if_expression", Tok("if") \o Tok("(") \o c \o Tok(")") \o Block(s))
While(c, s) == Nest("while_statement", Tok("while") \o Tok("(") \o c \o Tok(")") \o Block(s))
WhileOnly(c) == Nest("while_statement", Tok("while") \o Tok("(") \o c \o Tok(")") \o Tok(";"))
For(c, s) ==
  Nest("for_statement",
       Tok("for") \o Tok("(") \o Nest("variable_declaration", Leaf("simple_identifier", "x"))
         \o Tok("in") \o c \o Tok(")") \o Block(s))
When(c, s) ==
  Nest("when_expression",
       Tok("when") \o Nest("when_subject", Tok("(") \o c \o Tok(")")) \o Tok("{")
         \o Nest("when_entry", Nest("when_condition", IdentifierB) \o Tok("->") \o Block(s))
         \o Tok("}"))

ControlStructures(conditions, inners) ==
  UNION {{If(c, s), While(c, s), For(c, s), When(c, s)} : c \in conditions, s \in inners}
    \cup {WhileOnly(c) : c \in conditions}

\* get, private get, set, private set
Accessors(kind, word) ==
  {Nest(kind, Tok(word)),
   Nest(kind, Nest("modifiers", Nest("visibility_modifier", Tok("private"))) \o Tok(word))}
Getters == Accessors("getter", "get")
Setters == Accessors("setter", "set")

\* val x or var x, with the accessors written inside the declaration
PropertyDeclaration(mutability, inside) ==
  Nest("property_declaration",
       Tok(mutability) \o Nest("variable_declaration", Leaf("simple_identifier", "x"))
         \o inside)

\* A property, then what follows it: nothing, an accessor or an expression.
PropertyParts(getters, setters) ==
  {PropertyDeclaration(m, g \o s) \o after :
     m \in {"val", "var"}, g \in getters \cup {<< >>}, s \in setters \cup {<< >>},
     after \in getters \cup setters \cup {<< >>, IdentifierA}}

\* The statement lists of a block: none, a, or a and b on two lines.
BlockBodies == {<< >>, IdentifierA, IdentifierA \o OnNewLine(IdentifierB)}
Statements(s) == IF s = << >> THEN << >> ELSE Nest("statements", s)

\* catch ( e : E ) { s }
Catch(name, s) ==
  Nest("catch_block",
       Tok("catch") \o Tok("(") \o Leaf("simple_identifier", "e") \o Tok(":")
         \o Nest("user_type", Leaf("type_identifier", name)) \o Tok(")")
         \o Tok("{") \o Statements(s) \o Tok("}"))
\* finally { s }
Finally(s) == Nest("finally_block", Tok("finally") \o Tok("{") \o Statements(s) \o Tok("}"))

\* try { s } with catch blocks, a finally block, or both
TryParts(bodies) ==
  {Nest("try_expression",
        Tok("try") \o Tok("{") \o Statements(b) \o Tok("}") \o c \o f) :
     b \in bodies,
     c \in {<< >>} \cup {Catch("E", s) : s \in bodies}
             \cup {Catch("E", IdentifierA) \o Catch("F", << >>)},
     f \in {<< >>} \cup {Finally(s) : s \in bodies}}
    \ {Nest("try_expression", Tok("try") \o Tok("{") \o Statements(b) \o Tok("}")) :
         b \in bodies}

\* { x -> s }, { s }
LambdaLiteral(parameters, s) ==
  Nest("lambda_literal",
       Tok("{")
         \o (IF parameters
             THEN Nest("lambda_parameters",
                       Nest("variable_declaration", Leaf("simple_identifier", "x")))
                    \o Tok("->")
             ELSE << >>)
         \o Statements(s) \o Tok("}"))
\* object { }, object : E { }
ObjectLiteral(delegated) ==
  Nest("object_literal",
       Tok("object")
         \o (IF delegated
             THEN Tok(":") \o Nest("delegation_specifier",
                                   Nest("user_type", Leaf("type_identifier", "E")))
             ELSE << >>)
         \o Nest("class_body", Tok("{") \o Tok("}")))

\* One literal of each kind of the grammar that Expression::new hands to
\* Literal::new.
LiteralParts(bodies) ==
  {Leaf("boolean_literal", "true"), Leaf("string_literal", "\"s\""),
   Leaf("integer_literal", "1"), Leaf("character_literal", "'c'"),
   Leaf("long_literal", "1L"), Leaf("real_literal", "1.0"), Leaf("hex_literal", "0x1"),
   Tok("null")}
    \cup {ObjectLiteral(d) : d \in BOOLEAN}
    \cup {LambdaLiteral(p, s) : p \in BOOLEAN, s \in bodies}

\* The parameter lists ( ), ( x : E ) and ( x : E , y : F ).
FunctionValueParameter(name, ty) ==
  Nest("parameter",
       Leaf("simple_identifier", name) \o Tok(":")
         \o Nest("user_type", Leaf("type_identifier", ty)))
FunctionValueParameters ==
  {Nest("function_value_parameters", Tok("(") \o p \o Tok(")")) :
     p \in {<< >>, FunctionValueParameter("x", "E"),
            FunctionValueParameter("x", "E") \o Tok(",") \o FunctionValueParameter("y", "F")}}
\* No return type, : E and : E?
ReturnTypes ==
  {<< >>, Tok(":") \o Nest("user_type", Leaf("type_identifier", "E")),
   Tok(":") \o Nest("nullable_type", Nest("user_type", Leaf("type_identifier", "E"))
                                       \o Tok("?"))}
\* No body, { s } and = a
FunctionBodies(bodies) ==
  {<< >>, Nest("function_body", Tok("=") \o IdentifierA)}
    \cup {Nest("function_body", Tok("{") \o Statements(s) \o Tok("}")) : s \in bodies}
\* No receiver and the receiver R: the receiver type is a child of the
\* declaration, before the name.
Receivers == {<< >>, Nest("user_type", Leaf("type_identifier", "R")) \o Tok(".")}

\* fun f ( .. ), fun R . f ( .. ): with and without return type and body
FunctionParts(bodies) ==
  {Nest("function_declaration",
        Tok("fun") \o r \o Leaf("simple_identifier", "f") \o p \o ty \o b) :
     r \in Receivers, p \in FunctionValueParameters, ty \in ReturnTypes,
     b \in FunctionBodies(bodies)}

\* class name, class name { inside }
Class(name, inside) ==
  Nest("class_declaration",
       Tok("class") \o Leaf("type_identifier", name)
         \o (IF inside = <<"none">> THEN << >>
             ELSE Nest("class_body", Tok("{") \o inside \o Tok("}"))))
\* What stands in the body of the first class: no body, nothing, a class, a
\* class in a class, two classes, a property.
ClassInsides ==
  {<<"none">>, << >>, Class("B", <<"none">>), Class("B", Class("C", << >>)),
   Class("B", << >>) \o OnNewLine(Class("C", <<"none">>)),
   PropertyDeclaration("val", << >>)}
\* One or two classes at the top of the file, the first with a body of each
\* kind.
ClassParts(insides) ==
  UNION {{Class("A", i), Class("A", i) \o OnNewLine(Class("D", <<"none">>)),
          Class("A", i) \o OnNewLine(Class("D", Class("E", <<"none">>)))} :
           i \in insides}

\* l + r over a and b
Additions ==
  {Nest("additive_expression", l \o Tok("+") \o r) :
     l \in {IdentifierA, IdentifierB}, r \in {IdentifierA, IdentifierB}}

StatementFile(part) == Link(<<Inner(0, "source_file")>> \o OnNewLine(Shift(part, 1)))

\* The files of one statement, its expressions of up to so many operators.
StatementFiles(ops) ==
  {StatementFile(part) :
     part \in ExpressionParts(ops) \cup ControlStructures(Conditions, Inners)
                 \cup {DoWhile} \cup PropertyParts(Getters, Setters)
                 \cup TryParts(BlockBodies) \cup LiteralParts(BlockBodies)
                 \cup FunctionParts(BlockBodies) \cup ClassParts(ClassInsides)
                 \cup Additions}

ExprInit ==
  /\ ServerIdle
  /\ BuildIdle
  /\ TypesIdle
  /\ cst \in StatementFiles(MaxOps)
  /\ made = Running
  /\ remade = Running
  /\ parsed = Running
  /\ ConcIdle
  /\ stmts = Running
  /\ expr = Running
  /\ expr_rs = Running
  /\ prop = Running
  /\ literal = Running
  /\ built_function = Running
  /\ class_function = Running
  /\ file_classes = Running
  /\ overflow_checks \in BOOLEAN
  /\ CursorIdle

\* get_statements(&root, &content) of kotlin/statement.rs
GetStatements ==
  /\ stmts = Running
  /\ stmts' = get_statements(Calls(cst), cst, 1)
  /\ UNCHANGED <<expr, expr_rs, prop, literal, built_function, class_function, file_classes,
                 overflow_checks, cursorVars, cstVars, serverVars, buildVars, typeVars, concVars>>

\* Expression::new of kotlin/expression/mod.rs on the first statement
NewExpression ==
  /\ expr = Running
  /\ cst[2].kind \in EXPRESSIONS
  /\ expr' = Expression_new(Calls(cst), cst, 2)
  /\ UNCHANGED <<stmts, expr_rs, prop, literal, built_function, class_function, file_classes,
                 overflow_checks, cursorVars, cstVars, serverVars, buildVars, typeVars, concVars>>

\* Expression::new of kotlin/expression.rs on the first statement
OldNewExpression ==
  /\ expr_rs = Running
  /\ cst[2].kind \in EXPRESSIONS \ {"if_expression", "when_expression"}
  /\ expr_rs' = expression_rs_Expression_new(cst, 2)
  /\ UNCHANGED <<stmts, expr, prop, literal, built_function, class_function, file_classes,
                 overflow_checks, cursorVars, cstVars, serverVars, buildVars, typeVars, concVars>>

\* Property::new of kotlin/property.rs on the first statement
NewProperty ==
  /\ prop = Running
  /\ cst[2].kind = "property_declaration"
  /\ prop' = property_Property_new(Calls(cst), cst, 2)
  /\ UNCHANGED <<stmts, expr, expr_rs, literal, built_function, class_function, file_classes,
                 overflow_checks, cursorVars, cstVars, serverVars, buildVars, typeVars, concVars>>

\* Literal::new of kotlin/literal.rs on the first statement
NewLiteral ==
  /\ literal = Running
  /\ literal' = Literal_new(Calls(cst), cst, 2)
  /\ UNCHANGED <<stmts, expr, expr_rs, prop, built_function, class_function, file_classes,
                 overflow_checks, cursorVars, cstVars, serverVars, buildVars, typeVars, concVars>>

\* Function::new of kotlin/function.rs on the first statement
NewFunction ==
  /\ built_function = Running
  /\ cst[2].kind = "function_declaration"
  /\ built_function' = function_Function_new(Calls(cst), cst, 2)
  /\ UNCHANGED <<stmts, expr, expr_rs, prop, literal, class_function, file_classes,
                 overflow_checks, cursorVars, cstVars, serverVars, buildVars, typeVars, concVars>>

\* Function::new of kotlin/class/function.rs on the first statement
OldNewFunction ==
  /\ class_function = Running
  /\ cst[2].kind = "function_declaration"
  /\ class_function' = Function_new(cst, 2)
  /\ UNCHANGED <<stmts, expr, expr_rs, prop, literal, built_function, file_classes,
                 overflow_checks, cursorVars, cstVars, serverVars, buildVars, typeVars, concVars>>

\* get_classes(&tree, &content) of kotlin/class.rs
GetClasses ==
  /\ file_classes = Running
  /\ file_classes' = class_rs_get_classes(cst)
  /\ UNCHANGED <<stmts, expr, expr_rs, prop, literal, built_function, class_function,
                 overflow_checks, cursorVars, cstVars, serverVars, buildVars, typeVars, concVars>>

ExprNext ==
  \/ GetStatements
  \/ NewExpression
  \/ OldNewExpression
  \/ NewProperty
  \/ NewLiteral
  \/ NewFunction
  \/ OldNewFunction
  \/ GetClasses

SpecExpr == ExprInit /\ [][ExprNext]_vars

(***************************************************************************)
(* Nodes with fewer children than their production has.  The grammar does  *)
(* not derive them; the builders take any node of the kind.  Each file     *)
(* holds one statement, or one when or try expression, in which a          *)
(* while_statement, for_statement, when_subject or catch_block has only    *)
(* the first children of its production.                                   *)
(***************************************************************************)
RECURSIVE Joined(_, _)
\* The first j of the parts, one after the other.
Joined(parts, j) == IF j = 0 THEN << >> ELSE Joined(parts, j - 1) \o parts[j]
\* The nodes of the kind over the first j parts, for every j short of all.
Cut(kind, parts) == {Nest(kind, Joined(parts, j)) : j \in 0..(Len(parts) - 1)}

ShortParts ==
  Cut("while_statement", <<Tok("while"), Tok("("), IdentifierA, Tok(")"), Tok(";")>>)
    \cup Cut("for_statement",
             <<Tok("for"), Tok("("),
               Nest("variable_declaration", Leaf("simple_identifier", "x")),
               Tok("in"), IdentifierA, Tok(")"), Block(<< >>)>>)
    \cup {Nest("when_expression",
               Tok("when") \o s \o Tok("{")
                 \o Nest("when_entry",
                         Nest("when_condition", IdentifierB) \o Tok("->") \o Block(<< >>))
                 \o Tok("}")) :
            s \in Cut("when_subject", <<Tok("("), IdentifierA, Tok(")")>>)}
    \cup {Nest("try_expression", Tok("try") \o Tok("{") \o Tok("}") \o c) :
            c \in Cut("catch_block",
                      <<Tok("catch"), Tok("("), Leaf("simple_identifier", "e"), Tok(":"),
                        Nest("user_type", Leaf("type_identifier", "E")), Tok(")"),
                        Tok("{"), Statements(IdentifierA), Tok("}")>>)}

ShortInit ==
  /\ ServerIdle
  /\ BuildIdle
  /\ TypesIdle
  /\ cst \in {StatementFile(part) : part \in ShortParts}
  /\ made = Running
  /\ remade = Running
  /\ parsed = Running
  /\ ConcIdle
  /\ stmts = Running
  /\ expr = Running
  /\ expr_rs = Running
  /\ prop = Running
  /\ literal = Running
  /\ built_function = Running
  /\ class_function = Running
  /\ file_classes = Running
  /\ overflow_checks \in BOOLEAN
  /\ CursorIdle

ShortNext ==
  \/ GetStatements
  \/ NewExpression

SpecShort == ShortInit /\ [][ShortNext]_vars

(***************************************************************************)
(* The walks, a turn of the loop at a time.  called is the function and    *)
(* its arguments, cursor the state of its loop, visited the nodes          *)
(* cursor.node() has returned so far.  The files hold a few lines each:    *)
(* a use of a, declarations of a with and without a type, a class with     *)
(* the parameter a, a class D, a package header with an import, a          *)
(* function b.                                                             *)
(***************************************************************************)
MaxStatements == 2

UserTypeT == Nest("user_type", Leaf("type_identifier", "T"))
\* val a = b, val a : T = b
Declared(name, type) ==
  Nest("property_declaration",
       Tok("val") \o Nest("variable_declaration", Leaf("simple_identifier", name) \o type)
         \o Tok("=") \o IdentifierB)
\* class C ( val a : T )
ClassWith(name) ==
  Nest("class_declaration",
       Tok("class") \o Leaf("type_identifier", "C")
         \o Nest("primary_constructor",
                 Tok("(")
                   \o Nest("class_parameter",
                           Tok("val") \o Leaf("simple_identifier", name) \o Tok(":")
                             \o UserTypeT)
                   \o Tok(")")))
\* package app, and import a on the next line
Header ==
  Nest("package_header",
       Tok("package") \o Nest("identifier", Leaf("simple_identifier", "app")))
    \o OnNewLine(Nest("import_list",
                      Nest("import_header",
                           Tok("import") \o Nest("identifier", IdentifierA))))
\* private fun b ( )
FunctionNamed(name) ==
  Nest("function_declaration",
       Nest("modifiers", Nest("visibility_modifier", Tok("private"))) \o Tok("fun")
         \o Leaf("simple_identifier", name)
         \o Nest("function_value_parameters", Tok("(") \o Tok(")")))

Lines ==
  {IdentifierA, Declared("a", << >>), Declared("a", Tok(":") \o UserTypeT),
   ClassWith("a"), Class("D", <<"none">>), Header, FunctionNamed("b")}
\* The files of so many lines.
RECURSIVE LinesOf(_)
LinesOf(k) ==
  IF k = 1 THEN {OnNewLine(l) : l \in Lines}
  ELSE {p \o OnNewLine(l) : p \in LinesOf(k - 1), l \in Lines}
WalkFiles(max) == {StatementFile(part) : part \in UNION {LinesOf(k) : k \in 1..max}}

WalkPositions == [line : 0..1, character : {0, 4}]
WalkCalls ==
  {[fn |-> "get_node", name |-> "", pos |-> pos] : pos \in WalkPositions}
    \cup {[fn |-> fn, name |-> name, pos |-> NoPos] :
            fn \in {"get_function", "get_navigation", "get_navigation_type"},
            name \in {"a", "b"}}
    \cup {[fn |-> fn, name |-> "", pos |-> NoPos] :
            fn \in {"get_package", "get_imports", "get_classes"}}

\* let mut cursor = tree.walk(), and the locals of the function
Started(fn) ==
  CASE fn = "get_node" -> [cur |-> 1, target |-> 0, done |-> FALSE]
    [] fn = "get_package" -> [cur |-> 1, ret |-> "", done |-> FALSE]
    [] fn \in {"get_imports", "get_classes"} ->
         [cur |-> 1, ret |-> OkV(<< >>), done |-> FALSE]
    [] OTHER -> Walking(1)

WalkInit ==
  /\ ServerIdle
  /\ BuildIdle
  /\ TypesIdle
  /\ cst \in WalkFiles(MaxStatements)
  /\ made = Running
  /\ remade = Running
  /\ parsed = Running
  /\ ConcIdle
  /\ stmts = Running
  /\ expr = Running
  /\ expr_rs = Running
  /\ prop = Running
  /\ literal = Running
  /\ built_function = Running
  /\ class_function = Running
  /\ file_classes = Running
  /\ overflow_checks = FALSE
  /\ called \in WalkCalls
  \* Constructor::new is not among the sources: get_classes gets the files
  \* without a primary constructor.
  /\ called.fn = "get_classes" =>
       \A n \in 1..Len(cst) : cst[n].kind # "primary_constructor"
  /\ cursor = Started(called.fn)
  /\ visited = << >>

\* fn is in its loop.  No walk is followed for more turns than one above
\* the number of nodes.
Turning(fn) == called.fn = fn /\ ~cursor.done /\ Len(visited) <= Len(cst)

\* One turn of the outer loop of each function: cursor.node() is inspected
\* and the cursor moved, or the function returns.
GetNodeTurn ==
  /\ Turning("get_node")
  /\ cursor' = GetNodeStep(cst, called.pos, cursor)
  /\ visited' = Append(visited, cursor.cur)
  /\ UNCHANGED <<called, builderVars, cstVars, serverVars, buildVars, typeVars, concVars>>

GetFunctionTurn ==
  /\ Turning("get_function")
  /\ cursor' = GetFunctionStep(cst, called.name, cursor)
  /\ visited' = Append(visited, cursor.cur)
  /\ UNCHANGED <<called, builderVars, cstVars, serverVars, buildVars, typeVars, concVars>>

GetNavigationTurn ==
  /\ Turning("get_navigation")
  /\ cursor' = GetNavigationStep(cst, called.name, cursor)
  /\ visited' = Append(visited, cursor.cur)
  /\ UNCHANGED <<called, builderVars, cstVars, serverVars, buildVars, typeVars, concVars>>

GetNavigationTypeTurn ==
  /\ Turning("get_navigation_type")
  /\ cursor' = GetNavigationTypeStep(cst, called.name, cursor)
  /\ visited' = Append(visited, cursor.cur)
  /\ UNCHANGED <<called, builderVars, cstVars, serverVars, buildVars, typeVars, concVars>>

GetPackageTurn ==
  /\ Turning("get_package")
  /\ cursor' = GetPackageStep(cst, cursor)
  /\ visited' = Append(visited, cursor.cur)
  /\ UNCHANGED <<called, builderVars, cstVars, serverVars, buildVars, typeVars, concVars>>

GetImportsTurn ==
  /\ Turning("get_imports")
  /\ cursor' = GetImportsStep(cst, cursor)
  /\ visited' = Append(visited, cursor.cur)
  /\ UNCHANGED <<called, builderVars, cstVars, serverVars, buildVars, typeVars, concVars>>

GetClassesTurn ==
  /\ Turning("get_classes")
  /\ cursor' = class_rs_GetClassesStep(cst, cursor)
  /\ visited' = Append(visited, cursor.cur)
  /\ UNCHANGED <<called, builderVars, cstVars, serverVars, buildVars, typeVars, concVars>>

WalkNext ==
  \/ GetNodeTurn
  \/ GetFunctionTurn
  \/ GetNavigationTurn
  \/ GetNavigationTypeTurn
  \/ GetPackageTurn
  \/ GetImportsTurn
  \/ GetClassesTurn

\* A function that is running takes its next turn.
SpecWalk == WalkInit /\ [][WalkNext]_vars /\ WF_vars(WalkNext)

(***************************************************************************)
(*                              PROPERTIES                                 *)
(***************************************************************************)

(***************************************************************************)
(* Spans, as the specification of the position resolver reads them.        *)
(***************************************************************************)
\* (r1, c1) <= (r2, c2), compared lexicographically.
LexLeq(r1, c1, r2, c2) == r1 < r2 \/ (r1 = r2 /\ c1 <= c2)

\* start <= pos <= end
Contains(nd, pos) ==
  /\ LexLeq(nd.srow, nd.scol, pos.line, pos.character)
  /\ LexLeq(pos.line, pos.character, nd.erow, nd.ecol)

RECURSIVE IsAncestor(_, _, _)
IsAncestor(t, a, d) ==
  IF t[d].parent = 0 THEN FALSE
  ELSE t[d].parent = a \/ IsAncestor(t, a, t[d].parent)

\* Each child's span lies inside its parent's span.
WellNested(t) ==
  \A n \in 2..Len(t) :
    /\ LexLeq(t[t[n].parent].srow, t[t[n].parent].scol, t[n].srow, t[n].scol)
    /\ LexLeq(t[n].erow, t[n].ecol, t[t[n].parent].erow, t[t[n].parent].ecol)

\* The request being answered resolved a position in the tree of an indexed file.
Resolving == reply.op \in {"hover", "get_hover"} /\ reply.path \in DOMAIN trees
ReplyTree == Parse(trees[reply.path])

\* C2: in a CST whose children's spans lie inside their parents', the node
\* get_node returns contains the position and none of its descendants does:
\* it is the innermost covering node, never an enclosing ancestor.
C2_InnermostNode ==
  (Resolving /\ WellNested(ReplyTree) /\ reply.node # 0) =>
    /\ Contains(ReplyTree[reply.node], reply.pos)
    /\ \A d \in 1..Len(ReplyTree) :
         IsAncestor(ReplyTree, reply.node, d) => ~Contains(ReplyTree[d], reply.pos)

\* C3: get_node treats a node as covering the position exactly when
\* start <= position <= end, (line, column) compared lexicographically; so a
\* node spanning several lines covers every column of its interior lines.
C3_LexicographicCover ==
  Resolving =>
    \A n \in 1..Len(ReplyTree) :
      InSpan(ReplyTree[n], reply.pos) <=> Contains(ReplyTree[n], reply.pos)

\* C9: for every position inside the root node's span get_node returns some
\* node; it returns none only when no node's span contains the position.
C9_SomeNodeInsideRoot ==
  Resolving =>
    /\ Contains(ReplyTree[1], reply.pos) => reply.node # 0
    /\ reply.node = 0 =>
         \A n \in 1..Len(ReplyTree) : ~Contains(ReplyTree[n], reply.pos)

(***************************************************************************)
(* Declarations of a file, read off its CST independently of the walks.    *)
(***************************************************************************)
ChildrenOf(t, n) == {c \in 1..Len(t) : t[c].parent = n}
KidsOfKind(t, n, kinds) == {c \in ChildrenOf(t, n) : t[c].kind \in kinds}
TheKid(t, n, kinds) == CHOOSE c \in KidsOfKind(t, n, kinds) : TRUE
TypeKinds == {"user_type", "nullable_type", "function_type"}

\* The text of the modifiers of a declaration followed by a space; when the
\* declaration has none, nothing (or the bare separator).
ModifierPrefixes(t, d) ==
  IF KidsOfKind(t, d, {"modifiers"}) # {}
  THEN {t[TheKid(t, d, {"modifiers"})].text \o " "}
  ELSE {"", " "}

\* The function declarations named name.
FunctionDecls(t, name) ==
  {d \in 1..Len(t) :
     /\ t[d].kind = "function_declaration"
     /\ \E c \in KidsOfKind(t, d, {"simple_identifier"}) : t[c].text = name}

\* modifiers fun name(params): returnType
Signatures(t, d, name) ==
  LET params == t[TheKid(t, d, {"function_value_parameters"})].text
      ret == IF KidsOfKind(t, d, TypeKinds) # {}
             THEN ": " \o t[TheKid(t, d, TypeKinds)].text ELSE ""
  IN {m \o "fun " \o name \o params \o ret : m \in ModifierPrefixes(t, d)}

\* The property declarations and class parameters named name.
PropertyDecls(t, name) ==
  {d \in 1..Len(t) :
     /\ t[d].kind = "property_declaration"
     /\ \E v \in KidsOfKind(t, d, {"variable_declaration"}) :
          \E c \in KidsOfKind(t, v, {"simple_identifier"}) : t[c].text = name}
ClassParameters(t, name) ==
  {d \in 1..Len(t) :
     /\ t[d].kind = "class_parameter"
     /\ \E c \in KidsOfKind(t, d, {"simple_identifier"}) : t[c].text = name}

\* The declared type of a property or class parameter, when it has one.
DeclaredType(t, d) ==
  LET holder == IF t[d].kind = "property_declaration"
                THEN TheKid(t, d, {"variable_declaration"}) ELSE d
  IN IF KidsOfKind(t, holder, TypeKinds) = {} THEN None
     ELSE Some(t[TheKid(t, holder, TypeKinds)].text)

\* The initializer of a property: the node after its "=".
Initializer(t, d) ==
  IF KidsOfKind(t, d, {"="}) = {} THEN 0 ELSE t[TheKid(t, d, {"="})].next

\* modifiers val|var name: type, or name = initializer without a declared type.
PropertyRenderings(t, d, name) ==
  LET kw == t[TheKid(t, d, {"val", "var"})].text
  IN IF IsSome(DeclaredType(t, d))
     THEN {m \o kw \o " " \o name \o ": " \o Unwrap(DeclaredType(t, d))
             : m \in ModifierPrefixes(t, d)}
     ELSE {m \o kw \o " " \o name \o " = " \o t[Initializer(t, d)].text
             : m \in ModifierPrefixes(t, d)}
          \cup {name \o " = " \o t[Initializer(t, d)].text}

\* The type names a declaration gives name: its declared type T, or T when it
\* is initialised by a constructor call T().
TypeNamesOf(t, name) ==
  {Unwrap(DeclaredType(t, d)) :
     d \in {x \in PropertyDecls(t, name) \cup ClassParameters(t, name) :
              IsSome(DeclaredType(t, x))}}
  \cup
  {t[t[Initializer(t, d)].first].text :
     d \in {x \in PropertyDecls(t, name) :
              /\ DeclaredType(t, x) = None
              /\ Initializer(t, x) # 0
              /\ t[Initializer(t, x)].kind = "call_expression"
              /\ t[t[Initializer(t, x)].first].kind = "simple_identifier"}}

\* The request being answered is a get_hover that resolved a node whose
\* parent has the given kind.
HoveredUnder(kind) ==
  /\ reply.op = "get_hover"
  /\ reply.node # 0
  /\ ReplyTree[reply.node].parent # 0
  /\ ReplyTree[ReplyTree[reply.node].parent].kind = kind
HoveredName == ReplyTree[reply.node].text

\* The outcome is a hover whose Markdown is the code block of one of texts.
RendersOneOf(out, texts) ==
  /\ out.tag = "Ok"
  /\ IsSome(out.hover)
  /\ \E x \in texts : Unwrap(out.hover) = Markup(CodeBlock(x))

\* C5: hovering the member name b of a.b, where a is declared in the file with
\* type T (by a constructor call T() or a declared type) and the index holds
\* a file of stem T that declares a function b, returns b's signature.
C5_CrossFileNavigation ==
  LET t == ReplyTree
      a == t[t[t[reply.node].parent].prev].text
      targets == {p \in DOMAIN trees :
                  /\ p.stem \in TypeNamesOf(t, a)
                  /\ FunctionDecls(Parse(trees[p]), HoveredName) # {}}
  IN (HoveredUnder("navigation_suffix") /\ t[t[reply.node].parent].prev # 0
       /\ targets # {}) =>
       RendersOneOf(reply.out,
         UNION {UNION {Signatures(Parse(trees[p]), d, HoveredName) :
                         d \in FunctionDecls(Parse(trees[p]), HoveredName)} :
                  p \in targets})

\* C6: hovering a call target n succeeds for every function declaration named
\* n of the file, with or without modifiers and return type, and renders
\* modifiers, fun, n, the parameter list and the return type.
C6_CallTargetRendered ==
  (HoveredUnder("call_expression") /\ FunctionDecls(ReplyTree, HoveredName) # {}) =>
    RendersOneOf(reply.out,
      UNION {Signatures(ReplyTree, d, HoveredName) :
               d \in FunctionDecls(ReplyTree, HoveredName)})

\* C7: hovering a navigation target n succeeds for every property or variable
\* declaration named n of the file and renders modifiers val|var n: type, or
\* the name with = initializer when no type is declared.
C7_NavigationTargetRendered ==
  LET decls == PropertyDecls(ReplyTree, HoveredName)
                 \cup ClassParameters(ReplyTree, HoveredName)
  IN (HoveredUnder("navigation_expression") /\ decls # {}) =>
       RendersOneOf(reply.out,
         UNION {PropertyRenderings(ReplyTree, d, HoveredName) : d \in decls})

\* C8: a hover request whose path has no entry in the index, or whose position
\* no CST node covers, completes with an empty hover: no error, no panic.
C8_MissingIsEmpty ==
  LET uncovered == \A n \in 1..Len(ReplyTree) : ~Contains(ReplyTree[n], reply.pos)
  IN (/\ reply.op \in {"hover", "get_hover"}
      /\ (reply.path \notin DOMAIN trees \/ uncovered)) =>
       reply.out = Ok(None)

\* Keyword tokens of the grammar.
Keywords ==
  {"package", "import", "class", "fun", "val", "var", "private", "expect"}

\* No leaf of the tree contains the position: the cursor is on whitespace.
OnWhitespace(t, pos) ==
  \A n \in 1..Len(t) : t[n].first = 0 => ~Contains(t[n], pos)

\* C10: hovering a node that has no associated declaration (whitespace, a
\* keyword, or an identifier under a supported parent for which the file
\* declares no function or property of that name) returns Ok with no hover,
\* never Err.
C10_AbsenceIsNotError ==
  LET t == ReplyTree
      undeclared ==
        \/ /\ HoveredUnder("call_expression")
           /\ FunctionDecls(t, HoveredName) = {}
        \/ /\ HoveredUnder("navigation_expression")
           /\ PropertyDecls(t, HoveredName) \cup ClassParameters(t, HoveredName) = {}
  IN (/\ reply.op = "get_hover"
      /\ \/ OnWhitespace(t, reply.pos)
         \/ (reply.node # 0 /\ t[reply.node].kind \in Keywords)
         \/ undeclared) =>
       reply.out = Ok(None)

(***************************************************************************)
(* Hovering the identifiers of a typed function body.                      *)
(***************************************************************************)
\* The function of the file under test, its parameters and body identifiers.
TheFunction == Unwrap(file.classes[1].body).functions[1]
TheParameters == TheFunction.parameters
TheIdentifiers == Unwrap(TheFunction.body)
ParametersNamed(name) ==
  {p \in 1..Len(TheParameters) : TheParameters[p].name = name}

\* Same line, start column <= column <= end column.
Inside(id, pos) ==
  /\ id.range[1].line = pos.line
  /\ id.range[1].char <= pos.char
  /\ pos.char <= id.range[2].char

\* C1: after populate_types, hovering any position inside an occurrence, in
\* the function body, of a name that is the name of one of the function's
\* parameters returns exactly the fenced kotlin block "<name>: <type>" with
\* the type of a parameter of that name.
C1_ParameterHover ==
  (typed /\ elem.asked) =>
    \A k \in 1..Len(TheIdentifiers) :
      (ParametersNamed(TheIdentifiers[k].name) # {} /\ Inside(TheIdentifiers[k], elem.pos)) =>
        \E p \in ParametersNamed(TheIdentifiers[k].name) :
          elem.hover = Some(Markup(CodeBlock(TheIdentifiers[k].name \o ": "
                                             \o TheParameters[p].type_identifier)))

\* A later occurrence of the second of two parameters of different types is
\* hovered at its end column and answers with that parameter's type.
C1_Witness ==
  /\ typed
  /\ elem.asked
  /\ Len(TheParameters) = 2
  /\ TheParameters[1].name # TheParameters[2].name
  /\ TheParameters[1].type_identifier # TheParameters[2].type_identifier
  /\ \E k \in 2..Len(TheIdentifiers) :
       /\ TheIdentifiers[k].name = TheParameters[2].name
       /\ TheIdentifiers[k - 1].name = TheParameters[2].name
       /\ Inside(TheIdentifiers[k], elem.pos)
       /\ elem.pos.char = TheIdentifiers[k].range[2].char
       /\ elem.hover = Some(Markup(CodeBlock(TheParameters[2].name \o ": "
                                             \o TheParameters[2].type_identifier)))

(***************************************************************************)
(* The project index from_path builds.                                     *)
(***************************************************************************)
\* C4: building the index over the .kt files under the root yields exactly
\* one entry per file, the built file or its failure; a file whose
\* construction fails does not abort the build and is not left out.
C4_OneEntryPerFile ==
  (built.tag # "Running") =>
    /\ built.tag = "Ok"
    /\ DOMAIN built.val = KtFiles(disk)

(***************************************************************************)
(* Failures and shapes of hover answers.                                   *)
(***************************************************************************)
SupportedParents == {"call_expression", "navigation_expression", "navigation_suffix"}

\* C11: when the hovered node's parent kind is none of call_expression,
\* navigation_expression and navigation_suffix, the hover completes without
\* failure: it answers Ok (a not-supported notice or no hover), never an error.
C11_UnsupportedCompletes ==
  (/\ Resolving
   /\ reply.node # 0
   /\ ReplyTree[reply.node].parent # 0
   /\ ReplyTree[ReplyTree[reply.node].parent].kind \notin SupportedParents)
  => reply.out.tag = "Ok"

\* The left-hand expression a of the hovered a.b, and what each miss reports.
LeftHand == ReplyTree[ReplyTree[ReplyTree[reply.node].parent].prev].text
Undeclared(t, name) == PropertyDecls(t, name) \cup ClassParameters(t, name) = {}
NoTypeFailure == Err("no type for navigation expression found")
NoFileFailure(T) == Err("No file found for " \o T)
NoFunctionFailure(b, p) ==
  Err("no function with name " \o b \o " found in " \o DebugPath(p))
StemFiles(T) == {p \in DOMAIN trees : p.stem = T}

\* C12: hovering the member name b of a.b, each miss is a failure naming the
\* missing link: a has no declaration to take a type from; no indexed file
\* has the resolved type name as its stem; no file of that stem declares a
\* function b.  The three failures differ pairwise and carry no hover.
C12_MissingLinkNamed ==
  LET t == ReplyTree
      b == HoveredName
      resolved == get_navigation_type(t, LeftHand)
      T == Unwrap(resolved)
  IN (HoveredUnder("navigation_suffix") /\ t[t[reply.node].parent].prev # 0) =>
       /\ Undeclared(t, LeftHand) => reply.out = NoTypeFailure
       /\ (IsSome(resolved) /\ StemFiles(T) = {}) => reply.out = NoFileFailure(T)
       /\ (/\ IsSome(resolved)
           /\ StemFiles(T) # {}
           /\ \A p \in StemFiles(T) : FunctionDecls(Parse(trees[p]), b) = {})
          => \E p \in StemFiles(T) : reply.out = NoFunctionFailure(b, p)
       /\ IsSome(resolved) =>
            /\ NoTypeFailure # NoFileFailure(T)
            /\ \A p \in DOMAIN trees :
                 /\ NoTypeFailure # NoFunctionFailure(b, p)
                 /\ NoFileFailure(T) # NoFunctionFailure(b, p)
       /\ reply.out.tag = "Err" => reply.out.hover = None

\* A member hovered whose type resolves to a stem two indexed files share,
\* neither declaring the function: the failure names the function and a file.
C12_Witness ==
  /\ HoveredUnder("navigation_suffix")
  /\ ReplyTree[ReplyTree[reply.node].parent].prev # 0
  /\ IsSome(get_navigation_type(ReplyTree, LeftHand))
  /\ Cardinality(StemFiles(Unwrap(get_navigation_type(ReplyTree, LeftHand)))) = 2
  /\ \E p \in DOMAIN trees : reply.out = NoFunctionFailure(HoveredName, p)

\* The value opens with the kotlin fence line and closes with a fence line.
Opening == Fence \o "kotlin\n"
Closing == "\n" \o Fence
Fenced(v) ==
  /\ Len(v) >= Len(Opening) + Len(Closing)
  /\ SubSeq(v, 1, Len(Opening)) = Opening
  /\ SubSeq(v, Len(v) - Len(Closing) + 1, Len(v)) = Closing

\* C13: every non-empty hover a request answers with is Markdown whose value
\* is the kotlin code fence around the rendered text, whichever path
\* answered; no successful hover has another shape.
C13_FencedMarkdown ==
  (Resolving /\ reply.out.tag = "Ok" /\ IsSome(reply.out.hover)) =>
    LET h == Unwrap(reply.out.hover)
    IN /\ h.contents = "Markup"
       /\ h.kind = "Markdown"
       /\ Fenced(h.value)

(***************************************************************************)
(* File construction.                                                      *)
(***************************************************************************)
ClassNodes(t) == {n \in 1..Len(t) : t[n].kind = "class_declaration"}
\* The classes of the declarations from node n on that build, in source order.
RECURSIVE BuiltFrom(_, _)
BuiltFrom(t, n) ==
  IF n > Len(t) THEN << >>
  ELSE IF n \in ClassNodes(t) /\ KotlinClass_new(t, n).tag = "Ok"
  THEN <<KotlinClass_new(t, n).val>> \o BuiltFrom(t, n + 1)
  ELSE BuiltFrom(t, n + 1)

\* C14: when a class declaration of the file fails to build, KotlinFile::new
\* still succeeds and its classes are the declarations that build, those
\* before and those after the failing one, in order.
C14_FailureIsolated ==
  (made # Running /\ \E n \in ClassNodes(cst) : KotlinClass_new(cst, n).tag = "Err")
  => /\ made.tag = "Ok"
     /\ made.val.classes = BuiltFrom(cst, 1)

\* The CST has no package header, no import and no class declaration.
Bare(t) ==
  /\ Len(t) > 0
  /\ \A n \in 1..Len(t) :
       t[n].kind \notin {"package_header", "package", "import_list", "import_header",
                         "import", "class_declaration"}

\* C16: for a CST with no package header, no imports and no class
\* declarations File construction succeeds, with the empty package name, no
\* imports and no declarations.
C16_EmptyFileBuilds ==
  Bare(cst) =>
    /\ made # Running =>
         made = OkV([package |-> "", imports |-> << >>, classes |-> << >>])
    /\ parsed # Running =>
         /\ parsed.tag = "Ok"
         /\ parsed.val.package = ""
         /\ parsed.val.imports = << >>
         /\ parsed.val.classes = << >>

AloneOutcome ==
  IF reply.op = "hover" THEN HoverOutcome(populated, reply.path, reply.pos)
  ELSE get_hover_scan(populated, order, 1, reply.pos, Parse(populated[reply.path]))

\* C15: once initialize has filled the index, whatever hover, didOpen,
\* didSave, initialized and shutdown requests are in flight together, the
\* index has the paths and values initialize gave it, and every hover
\* answers what it answers when it runs alone.
C15_IndexReadOnly ==
  phase # "uninitialized" =>
    /\ trees = populated
    /\ reply.op \in {"hover", "get_hover"} => reply.out = AloneOutcome

\* A hover of the member of g.baz(n) answered from the index of two files of
\* stem Foo while a did_save awaits its log message.
C15_Witness ==
  /\ reply.op = "get_hover"
  /\ reply.pos = [line |-> 8, character |-> 10]
  /\ Cardinality(StemMatches(trees, "Foo")) = 2
  /\ reply.out.tag = "Ok"
  /\ \E r \in inflight : r.op = "did_save" /\ r.stage = "logged"

(***************************************************************************)
(* Expressions, statement blocks and properties.                           *)
(***************************************************************************)
\* The nodes of the subtree of n.
Under(t, n) == {n} \cup {d \in 1..Len(t) : IsAncestor(t, n, d)}

\* e is the Expression that nests as the subtree of n does.
RECURSIVE Mirrors(_, _, _)
Mirrors(t, n, e) ==
  CASE t[n].kind = "simple_identifier" ->
         e = [variant |-> "Identifier", identifier |-> t[n].text]
    [] t[n].kind \in {"disjunction_expression", "conjunction_expression"} ->
         /\ e.variant = (IF t[n].kind = "disjunction_expression" THEN "Disjunction"
                         ELSE "Conjunction")
         /\ Mirrors(t, Unwrap(child(t, n, 0)), e.left)
         /\ Mirrors(t, Unwrap(child(t, n, 2)), e.right)
    [] OTHER -> FALSE

\* The first statement is a disjunction over identifiers with a conjunction
\* as an operand.
DisjunctionOverConjunction ==
  /\ cst # << >>
  /\ cst[2].kind = "disjunction_expression"
  /\ \E c \in {cst[2].first, cst[cst[cst[2].first].next].next} :
       cst[c].kind = "conjunction_expression"
  /\ \A d \in Under(cst, 2) :
       cst[d].kind \in {"disjunction_expression", "conjunction_expression",
                        "simple_identifier", "||", "&&"}

\* C17: for a disjunction_expression node one of whose operands is a
\* conjunction_expression node, Expression construction (that of
\* kotlin/expression/mod.rs and that of kotlin/expression.rs) succeeds and
\* yields the Disjunction whose operands nest as the children do, the
\* conjunction operand being the Conjunction built from that child.
C17_NestingMirrored ==
  \A r \in {expr, expr_rs} :
    (r # Running /\ DisjunctionOverConjunction)
      => (r.tag = "Ok" /\ Mirrors(cst, 2, r.val))

\* The node kinds of the statement trees that no builder has a rule for.
NoRule == {"bin_literal", "do_while_statement"}

\* C18: if a node reached while building an expression or a statement block
\* has a kind with no translation rule, the construction returns a failure,
\* also when the node sits in the body of an if, when, while or for.
C18_NoSilentSkip ==
  \A r \in {stmts, expr} :
    (r # Running /\ \E d \in Under(cst, 2) : cst[d].kind \in NoRule)
      => r.tag = "Err"

\* The accessors of this kind written inside the property declaration.
WrittenInside(kind) == {c \in 1..Len(cst) : cst[c].parent = 2 /\ cst[c].kind = kind}
\* What the accessor builder of this kind makes of node c.
AccessorOf(kind, c) ==
  IF kind = "getter" THEN Getter_new(cst, c).val ELSE Setter_new(cst, c).val

\* C20: when a property has an accessor of the same kind both as a direct
\* child of the property node and as the node's next sibling, the built
\* Property holds the accessor built from the direct child.
C20_FirstAccessorWins ==
  \A kind \in {"getter", "setter"} :
    (/\ prop # Running
     /\ WrittenInside(kind) # {}
     /\ cst[2].next # 0
     /\ cst[cst[2].next].kind = kind)
      => /\ prop.tag = "Ok"
         /\ prop.val[kind] = Some(AccessorOf(kind, Smallest(WrittenInside(kind))))

(***************************************************************************)
(* try expressions (kotlin/expression/try.rs).                             *)
(***************************************************************************)
\* The statements written in the block of n, as get_statements builds the
\* identifiers a and b.
WrittenBlock(t, n) ==
  LET inside == KidsOfKind(t, n, {"statements"})
      written == IF inside = {} THEN << >> ELSE children(t, Smallest(inside))
  IN [i \in 1..Len(written) |->
        [variant |-> "Expression",
         val |-> [variant |-> "Identifier", identifier |-> t[written[i]].text]]]

CatchNodes(t, n) == SelectSeq(children(t, n), LAMBDA c : t[c].kind = "catch_block")
FinallyNodes(t, n) == KidsOfKind(t, n, {"finally_block"})

\* C21: a built Try expression holds the statements of the try block in
\* order, one CatchBlock per catch_block child in source order, each with
\* the statements of its block, and a finally block exactly when there is a
\* finally_block child, whose statements are those of the finally body in
\* order.
C21_TryHoldsItsBlocks ==
  (expr # Running /\ cst[2].kind = "try_expression") =>
    /\ expr.tag = "Ok"
    /\ expr.val.block = WrittenBlock(cst, 2)
    /\ Len(expr.val.catch_blocks) = Len(CatchNodes(cst, 2))
    /\ \A i \in 1..Len(CatchNodes(cst, 2)) :
         expr.val.catch_blocks[i].block = WrittenBlock(cst, CatchNodes(cst, 2)[i])
    /\ IsSome(expr.val.finally_block) <=> FinallyNodes(cst, 2) # {}
    /\ \A f \in FinallyNodes(cst, 2) :
         Unwrap(expr.val.finally_block).block = WrittenBlock(cst, f)


(***************************************************************************)
(* Literals (kotlin/literal.rs).                                           *)
(***************************************************************************)
\* The literal node kinds, and those of them whose value is their text.
TextualKinds ==
  {"boolean_literal", "string_literal", "integer_literal", "character_literal",
   "long_literal", "real_literal", "hex_literal"}
LiteralKinds == TextualKinds \cup {"null", "object_literal", "lambda_literal"}

\* The message holds the word.
Names(msg, word) ==
  \E i \in 1..(Len(msg) - Len(word) + 1) : SubSeq(msg, i, i + Len(word) - 1) = word

\* C22: Literal::new succeeds for every literal node kind (boolean, string,
\* integer, character, long, real, hex, null, object, lambda) and stores the
\* text of the node for the textual kinds; for a node of any other kind it
\* fails with an error that names the kind and the position of the node.
C22_LiteralKinds ==
  literal # Running =>
    IF cst[2].kind \in LiteralKinds
    THEN /\ literal.tag = "Ok"
         /\ cst[2].kind \in TextualKinds => literal.val.text = cst[2].text
    ELSE /\ literal.tag = "Err"
         /\ Names(literal.msg, cst[2].kind)
         /\ Names(literal.msg, start_position(cst, 2))


(***************************************************************************)
(* Function declarations (kotlin/function.rs, kotlin/class/function.rs).   *)
(***************************************************************************)
\* The parameter nodes of the declaration n, in source order.
ParameterNodes(t, n) ==
  SelectSeq(children(t, TheKid(t, n, {"function_value_parameters"})),
            LAMBDA c : t[c].kind = "parameter")
\* The declaration n declares a return type: a colon follows its parameters.
DeclaresReturnType(t, n) == KidsOfKind(t, n, {":"}) # {}

\* C23: a built Function lists one parameter per parameter child of the
\* declaration in source order, and its return type is absent exactly when
\* the declaration declares none; extension functions, whose receiver type
\* stands before the name, included.
C23_ParametersAndReturnType ==
  LET Holds(f) ==
        (f # Running /\ cst[2].kind = "function_declaration") =>
          /\ f.tag = "Ok"
          /\ Len(f.val.parameters) = Len(ParameterNodes(cst, 2))
          /\ \A i \in 1..Len(ParameterNodes(cst, 2)) :
               f.val.parameters[i].name
                 = cst[child(cst, ParameterNodes(cst, 2)[i], 0)[1]].text
          /\ f.val.return_type = None <=> ~DeclaresReturnType(cst, 2)
  IN Holds(built_function) /\ Holds(class_function)


(***************************************************************************)
(* The classes of a file (kotlin/class.rs).                                *)
(***************************************************************************)
\* The class declarations at the top of the file, in source order.
TopLevelClasses(t) == SelectSeq(children(t, 1), LAMBDA c : t[c].kind = "class_declaration")
\* The name written in the class declaration c.
WrittenName(t, c) == t[TheKid(t, c, {"type_identifier"})].text

\* C24: the declaration list of a built file holds exactly the class
\* declarations at the top of the file, each once and in source order; a
\* class declared in the body of another class is in that class's body and
\* is no entry of the file's list.
C24_TopLevelOnly ==
  (file_classes # Running /\ TopLevelClasses(cst) # << >>) =>
    /\ file_classes.tag = "Ok"
    /\ Len(file_classes.val) = Len(TopLevelClasses(cst))
    /\ \A i \in 1..Len(TopLevelClasses(cst)) :
         file_classes.val[i].name = WrittenName(cst, TopLevelClasses(cst)[i])


(***************************************************************************)
(* Binary expressions (kotlin/expression/mod.rs).                          *)
(***************************************************************************)
\* The variant of each binary production.
BinaryVariants ==
  [additive_expression |-> "Additive", conjunction_expression |-> "Conjunction",
   disjunction_expression |-> "Disjunction"]

\* C25: Expression::new maps each binary production to its own variant,
\* built from child 0 and child 2: additive_expression gives Additive,
\* conjunction_expression Conjunction, disjunction_expression Disjunction,
\* and no two productions give the same variant.
C25_OwnVariant ==
  (expr # Running /\ expr.tag = "Ok" /\ cst[2].kind \in DOMAIN BinaryVariants) =>
    /\ expr.val.variant = BinaryVariants[cst[2].kind]
    /\ OkV(expr.val.left) = Calls(cst)["Expression::new", Unwrap(child(cst, 2, 0))]
    /\ OkV(expr.val.right) = Calls(cst)["Expression::new", Unwrap(child(cst, 2, 2))]


(***************************************************************************)
(* Children counted from the end (kotlin/expression/try.rs,                *)
(* kotlin/expression/mod.rs, kotlin/statement.rs).                         *)
(***************************************************************************)
\* The builders that count from the end, and the children the largest
\* index of each assumes.
CountedFromEnd ==
  [catch_block |-> 6, when_subject |-> 2, while_statement |-> 1, for_statement |-> 5]
\* A node of the tree has fewer children than its builder assumes.
TooFewChildren(t) ==
  \E n \in 1..Len(t) :
    /\ t[n].kind \in DOMAIN CountedFromEnd
    /\ Len(children(t, n)) < CountedFromEnd[t[n].kind]

Named(t, name) == {n \in 1..Len(t) : t[n].text = name}
\* The text of the sibling two after n, None when there is none.
SecondFollowing(t, n) ==
  LET siblings == children(t, t[n].parent)
      i == CHOOSE k \in 1..Len(siblings) : siblings[k] = n
  IN IF i + 2 <= Len(siblings) THEN Some(t[siblings[i + 2]].text) ELSE None
Declares(t, n) ==
  \/ t[n].kind = "variable_declaration"
  \/ t[n].parent # 0 /\ t[t[n].parent].kind = "class_parameter"

\* C27: get_navigation_type inspects only the first node in pre-order whose
\* text equals the name.  If that node is neither a variable_declaration nor
\* a child of a class_parameter the result is absent, also when a declaration
\* of the name comes later in the tree; for a variable_declaration the result
\* is the text of the second following sibling, the node after =, and not
\* the text of a type annotation.
C27_FirstMatchOnly ==
  LET t == cst
      hits == Named(t, called.name)
      first == Smallest(hits)
  IN (called.fn = "get_navigation_type" /\ cursor.done) =>
       /\ hits = {} => cursor.ret = None
       /\ hits # {} =>
            /\ visited = [k \in 1..first |-> k]
            /\ ~Declares(t, first) => cursor.ret = None
            /\ t[first].kind = "variable_declaration" =>
                 /\ cursor.ret = SecondFollowing(t, first)
                 /\ t[t[first].next].kind = "="
                 /\ cursor.ret # Some("T")

\* a is used on the first line and declared on the second: nothing is returned.
C27_Witness ==
  /\ called.fn = "get_navigation_type"
  /\ called.name = "a"
  /\ cursor.done
  /\ cursor.ret = None
  /\ ~Declares(cst, Smallest(Named(cst, "a")))
  /\ \E n \in Named(cst, "a") : cst[n].kind = "variable_declaration"


(***************************************************************************)
(* Files of the same stem (src/hover.rs, the scan of the index)            *)
(***************************************************************************)
\* The places of the iteration order whose file has the stem T.
OfStem(T) == {k \in 1..Len(order) : order[k].stem = T}
\* The indexed files of stem T that declare a function of the name.
Declaring(T, name) ==
  {p \in StemFiles(T) : IsSome(get_function(Parse(trees[p]), name))}

\* C28: hovering the member b of a.b where several index entries have the
\* stem of the resolved type name, only the first of them in the iteration
\* order of the index is consulted: when that file has no function b the
\* request fails, also when another file of the stem declares b; so for the
\* same path, position and index contents the answer differs between
\* iteration orders.
C28_FirstEntryOnly ==
  LET t == ReplyTree
      b == HoveredName
      resolved == get_navigation_type(t, LeftHand)
      T == Unwrap(resolved)
      met == order[Smallest(OfStem(T))]
  IN (/\ HoveredUnder("navigation_suffix")
      /\ t[t[reply.node].parent].prev # 0
      /\ IsSome(resolved)
      /\ OfStem(T) # {}) =>
       /\ met \notin Declaring(T, b) => reply.out = NoFunctionFailure(b, met)
       /\ met \in Declaring(T, b) =>
            reply.out = Ok(Some(Markup(CodeBlock(Unwrap(get_function(Parse(trees[met]), b))))))
       /\ (Declaring(T, b) # {} /\ Declaring(T, b) # StemFiles(T)) =>
            \E o1, o2 \in Orders(DOMAIN trees) :
              get_hover_scan(trees, o1, 1, reply.pos, t)
                # get_hover_scan(trees, o2, 1, reply.pos, t)

\* g.baz(n) with lib/Foo.kt met before src/Foo.kt: the request fails on
\* lib/Foo.kt, and src/Foo.kt declares baz.
C28_Witness ==
  /\ HoveredUnder("navigation_suffix")
  /\ HoveredName = "baz"
  /\ reply.out = NoFunctionFailure("baz", LibFoo)
  /\ SrcFoo \in Declaring("Foo", "baz")


(***************************************************************************)
(* FunctionBody::populate_types (src/kotlin/class/function.rs)             *)
(***************************************************************************)
\* The type populate_types gives a name: that of the first parameter of the
\* name, none when no parameter has it.
TypeOfName(name) ==
  IF ParametersNamed(name) = {} THEN None
  ELSE Some(TheParameters[Smallest(ParametersNamed(name))].type_identifier)

\* C29: populate_types keeps the number, the order, the names and the ranges
\* of the identifiers of a function body and gives every occurrence of a
\* name the same data type: the type of the first parameter of that name
\* when the name is a parameter's, and none otherwise, and then the hover
\* of the identifier is none.
C29_OccurrencesKept ==
  [][(~typed /\ typed') =>
       /\ Len(TheIdentifiers') = Len(TheIdentifiers)
       /\ \A k \in 1..Len(TheIdentifiers) :
            /\ TheIdentifiers'[k].name = TheIdentifiers[k].name
            /\ TheIdentifiers'[k].range = TheIdentifiers[k].range
            /\ TheIdentifiers'[k].data_type = TypeOfName(TheIdentifiers[k].name)
            /\ ParametersNamed(TheIdentifiers[k].name) = {} =>
                 Identifier_hover(TheIdentifiers'[k]) = None
       /\ \A j, k \in 1..Len(TheIdentifiers) :
            TheIdentifiers[j].name = TheIdentifiers[k].name =>
              TheIdentifiers'[j].data_type = TheIdentifiers'[k].data_type]_vars

\* Two parameters of one name and different types; the body holds that name
\* twice, typed as the first parameter, and then a name of no parameter,
\* left without a type.
C29_Witness ==
  /\ typed
  /\ Len(TheParameters) = 2
  /\ TheParameters[1].name = TheParameters[2].name
  /\ TheParameters[1].type_identifier # TheParameters[2].type_identifier
  /\ Len(TheIdentifiers) = 3
  /\ TheIdentifiers[1].name = TheParameters[1].name
  /\ TheIdentifiers[2].name = TheParameters[1].name
  /\ TheIdentifiers[1].data_type = Some(TheParameters[1].type_identifier)
  /\ TheIdentifiers[2].data_type = Some(TheParameters[1].type_identifier)
  /\ TheIdentifiers[3].data_type = None


(***************************************************************************)
(* The walks over the whole tree (src/tree.rs, kotlin/class.rs,            *)
(* kotlin/package.rs, kotlin/import.rs)                                    *)
(***************************************************************************)
\* n and the nodes above it.
RECURSIVE UpFrom(_, _)
UpFrom(t, n) == IF n = 0 THEN {} ELSE {n} \cup UpFrom(t, t[n].parent)
\* The node after n in depth-first pre-order: its first child, else its next
\* sibling, else the next sibling of the nearest ancestor that has one; 0
\* after the last node.
Following(t, n) ==
  LET turning == {a \in UpFrom(t, n) : t[a].next # 0}
      Nearest == CHOOSE a \in turning : \A b \in turning : b \in UpFrom(t, a)
  IN IF t[n].first # 0 THEN t[n].first
     ELSE IF turning = {} THEN 0
     ELSE t[Nearest].next
\* The function returns from inside its turn on node n.
ReturnsAt(call, t, n) ==
  CASE call.fn = "get_node" -> FALSE
    [] call.fn = "get_function" ->
         t[n].text = call.name
           /\ (t[n].parent = 0 \/ t[t[n].parent].kind = "function_declaration")
    [] call.fn = "get_navigation" ->
         t[n].text = call.name
           /\ (\/ t[n].kind = "variable_declaration"
               \/ t[n].parent = 0
               \/ t[t[n].parent].kind = "class_parameter")
    [] call.fn = "get_navigation_type" -> t[n].text = call.name
    [] call.fn = "get_package" -> t[n].kind = "package"
    [] call.fn = "get_imports" -> t[n].kind = "import" /\ t[n].next = 0
    [] call.fn = "get_classes" ->
         t[n].kind = "class_declaration" /\ Calls(t)["Class::new", n].tag # "Ok"
    [] OTHER -> FALSE
\* The nodes visited so far start at the root, follow one another in
\* pre-order and are all different; a walk that has returned by no match
\* has visited every node.
InPreOrder ==
  /\ visited # << >> => visited[1] = 1
  /\ \A k \in 1..(Len(visited) - 1) : visited[k + 1] = Following(cst, visited[k])
  /\ \A j, k \in 1..Len(visited) : visited[j] = visited[k] => j = k
  /\ Len(visited) <= Len(cst)
  /\ \A k \in 1..(Len(visited) - 1) : ~ReturnsAt(called, cst, visited[k])
  /\ (cursor.done /\ visited # << >> /\ ~ReturnsAt(called, cst, visited[Len(visited)])) =>
       {visited[k] : k \in 1..Len(visited)} = 1..Len(cst)

\* C30: the cursor walks (get_node, get_function, get_navigation,
\* get_navigation_type, get_classes, get_package, get_imports) end on every
\* finite tree, and a walk that does not return early visits every node
\* once, in depth-first pre-order (first child, else next sibling, else the
\* next sibling of the nearest ancestor that has one), before it returns.
C30_WalksEnd ==
  [](called # NoCall => InPreOrder) /\ <>(called # NoCall => cursor.done)

\* get_node has returned after the last node of a file in which the cursor
\* climbed two levels to find a next sibling.
C30_Witness ==
  /\ called.fn = "get_node"
  /\ cursor.done
  /\ Len(visited) = Len(cst)
  /\ \E k \in 1..(Len(visited) - 1) :
       /\ cst[visited[k]].first = 0
       /\ cst[visited[k]].next = 0
       /\ cst[cst[visited[k]].parent].next = 0

=============================================================================
